---- MODULE Spec2Model ----
(***************************************************************************)
(* Model of the media pipeline of yana (src-tauri/src):                    *)
(*   thumbnail.rs  single-flight gate, thumbnail batches, cache store,     *)
(*                 downloader with retry                                   *)
(*   process.rs    compress_images batch orchestrator                      *)
(* Strings that the code matches by substring are sequences of tokens; a   *)
(* pattern matches when its tokens occur contiguously.                     *)
(***************************************************************************)
EXTENDS Integers, Sequences, FiniteSets, TLC

VARIABLES
    gate,       \* GENERATING_THUMBNAILS
    pc,         \* per caller: position in a thumbnail command
    kind,       \* per caller: "remote" (generate_thumbnails) or "local"
    items,      \* per caller: the urls / (url, local file) pairs of the call
    tasks,      \* per caller: the per-item futures handed to join_all
    result,     \* per caller: the value the command returned
    cache,      \* files of the cache directory, by file stem
    tmp,        \* download / copy files of the app temp directory
    seen,       \* the answer of get_thumbnail_path, when the last step was that command
    okSince,    \* urls that produced Ok since the cache was last cleared
    responses,  \* what the network may answer (fixed per behaviour)
    maxBatch,   \* longest input list a call may carry (fixed per behaviour)
    callers,    \* the clients that issue thumbnail commands (fixed per behaviour)
    kinds,      \* the thumbnail commands the clients use (fixed per behaviour)
    settings,   \* compress commands: quality, mode and the other settings (fixed)
    cpaths,     \* compress_images: input paths
    cwork,      \* compress_images: per-item worker state
    cv,         \* compress_images: collected (index, output) pairs
    cout,       \* compress_images: returned value
    cfiles,     \* compress commands: artifacts in the app temp directory
    cdata,      \* compress_image_data: the buffer, the call's position and result
    sfile,      \* settings.json: the texts it holds (none when the file is absent)
    sarg,       \* save_settings: the payload of the last call
    sback,      \* load_settings: the value of the last call
    qv,         \* encode_png: one colour channel of one pixel, before and after
    rv          \* should_retry: the arguments of one call and its value

tvars == <<gate, pc, kind, items, tasks, result, cache, tmp, seen, okSince>>
env == <<responses, maxBatch, callers, kinds, settings>>
cvars == <<cpaths, cwork, cv, cout, cfiles, cdata>>
pvars == <<sfile, sarg, sback, qv, rv>>
vars == <<gate, pc, kind, items, tasks, result, cache, tmp, seen, okSince,
          responses, maxBatch, callers, kinds, settings, cpaths, cwork, cv, cout,
          cfiles, cdata, sfile, sarg, sback, qv, rv>>

----------------------------------------------------------------------------
(* Bounds *)

NCallers == 2
GateItems == 1
MaxItems == 2
MaxPaths == 3

Callers == 1..NCallers

----------------------------------------------------------------------------
(* Strings as token sequences *)

\* str::contains
Contains(s, pat) ==
    \E i \in 1..(Len(s) - Len(pat) + 1) : SubSeq(s, i, i + Len(pat) - 1) = pat

\* char::to_lowercase on the tokens that occur in messages
LowerTok(t) ==
    CASE t = "Failed to read response" -> "failed to read response"
      [] t = "Failed to download" -> "failed to download"
      [] t = "Failed to write to file" -> "failed to write to file"
      [] t = "Failed to open image" -> "failed to open image"
      [] t = "Failed to save thumbnail" -> "failed to save thumbnail"
      [] t = "Image too large" -> "image too large"
      [] t = "Downloaded image is empty" -> "downloaded image is empty"
      [] t = "HTTP error " -> "http error "
      [] t = "Timed Out" -> "timed out"
      [] OTHER -> t

to_lowercase(s) == [i \in 1..Len(s) |-> LowerTok(s[i])]

----------------------------------------------------------------------------
(* Urls *)

UrlPlain == <<"http://h/a", ".png">>
UrlTricky == <<"http://h/", "Failed to open image", ".png">>

Urls == {UrlPlain, UrlTricky}

\* Sha256 of the url, first 16 hex characters
compute_url_hash(url) ==
    IF url = UrlPlain THEN "5d1c0a3e9b7f2468" ELSE "0be7719c4d3a6f25"

generate_cache_path(cache_dir, url) ==
    <<cache_dir, compute_url_hash(url), ".webp">>

CacheDir == "appdata/cache/"

Stems == {compute_url_hash(u) : u \in Urls}

\* the last '.'-suffix of the last path segment, lowercased
extract_file_extension(url) == LowerTok(url[Len(url)])

----------------------------------------------------------------------------
(* Downloader: one attempt *)

MAX_RETRIES == 3
INITIAL_TIMEOUT_SECS == 30
MAX_SIZE == 52428800

Statuses == {200, 401, 403, 404, 500}

StatusText(s) ==
    CASE s = 401 -> <<"401", " Unauthorized">>
      [] s = 403 -> <<"403", " Forbidden">>
      [] s = 404 -> <<"404", " Not Found">>
      [] s = 500 -> <<"500", " Internal Server Error">>
      [] OTHER -> <<"200", " OK">>

\* A response: what the server and the local disk do in one attempt.
\*   send   "ok" or the reqwest error of send()
\*   clen   declared Content-Length, -1 when the header is absent
\*   read   "ok" or the reqwest error of bytes()
\*   len    length of the body received
\*   magic  whether the body starts with a signature of is_valid_image_magic
AllResponses ==
    [send : {"ok", "timed out", "connection"},
     status : Statuses,
     ctype : {"image/png", "text/html"},
     clen : {-1, 10, MAX_SIZE + 1},
     read : {"ok", "error decoding"},
     len : {0, 3, 10, MAX_SIZE + 1},
     magic : BOOLEAN,
     create : BOOLEAN,
     write : BOOLEAN]

GoodResponse ==
    [send |-> "ok", status |-> 200, ctype |-> "image/png", clen |-> 10,
     read |-> "ok", len |-> 10, magic |-> TRUE, create |-> TRUE, write |-> TRUE]

is_valid_image_content_type(ct) == ct \in {"image/png", ""}

\* is_valid_image_magic: length below 4 never matches
\* a signature test that does not look at the length
is_valid_image_magic_any_length(r) == r.magic

is_valid_image_magic(r) == r.len >= 4 /\ r.magic

\* an attempt that turns away a response whose Content-Type is not an image type
download_image_attempt_typed(url, r, dest, max_size) ==
    IF r.send # "ok"
    THEN [ok |-> FALSE, cause |-> "send",
          msg |-> <<"Failed to download", " image from ">> \o url \o <<": ", r.send>>]
    ELSE IF r.status # 200
    THEN [ok |-> FALSE, cause |-> StatusText(r.status)[1],
          msg |-> <<"HTTP error ">> \o StatusText(r.status)
                     \o <<" when downloading from ">> \o url]
    ELSE IF ~is_valid_image_content_type(r.ctype)
    THEN [ok |-> FALSE, cause |-> "content-type",
          msg |-> <<"Invalid content type ", r.ctype, " from ">> \o url]
    ELSE IF r.clen # -1 /\ r.clen > max_size
    THEN [ok |-> FALSE, cause |-> "content-length",
          msg |-> <<"Image too large", " (", "n", " bytes) from ">> \o url]
    ELSE IF r.read # "ok"
    THEN [ok |-> FALSE, cause |-> "read",
          msg |-> <<"Failed to read response", " body from ">> \o url \o <<": ", r.read>>]
    ELSE IF r.len = 0
    THEN [ok |-> FALSE, cause |-> "empty",
          msg |-> <<"Downloaded image is empty", " from ">> \o url]
    ELSE IF r.len > max_size
    THEN [ok |-> FALSE, cause |-> "exceeds",
          msg |-> <<"Downloaded data exceeds maximum size", " from ">> \o url]
    ELSE IF ~(r.len >= 4 /\ r.magic)
    THEN [ok |-> FALSE, cause |-> "magic",
          msg |-> <<"Downloaded file does not appear to be a valid image from ">> \o url]
    ELSE IF ~r.create
    THEN [ok |-> FALSE, cause |-> "create",
          msg |-> <<"Failed to create file ", dest, ": ", "os error">>]
    ELSE IF ~r.write
    THEN [ok |-> FALSE, cause |-> "write",
          msg |-> <<"Failed to write to file", ": ", "os error">>]
    ELSE [ok |-> TRUE, cause |-> "ok", msg |-> <<>>]

\* download_image_attempt: the first check that fails decides the error
download_image_attempt(url, r, dest, max_size) ==
    IF r.send # "ok"
    THEN [ok |-> FALSE, cause |-> "send",
          msg |-> <<"Failed to download", " image from ">> \o url \o <<": ", r.send>>]
    ELSE IF r.status # 200
    THEN [ok |-> FALSE, cause |-> StatusText(r.status)[1],
          msg |-> <<"HTTP error ">> \o StatusText(r.status)
                     \o <<" when downloading from ">> \o url]
    ELSE IF r.clen # -1 /\ r.clen > max_size
    THEN [ok |-> FALSE, cause |-> "content-length",
          msg |-> <<"Image too large", " (", "n", " bytes) from ">> \o url]
    ELSE IF r.read # "ok"
    THEN [ok |-> FALSE, cause |-> "read",
          msg |-> <<"Failed to read response", " body from ">> \o url \o <<": ", r.read>>]
    ELSE IF r.len = 0
    THEN [ok |-> FALSE, cause |-> "empty",
          msg |-> <<"Downloaded image is empty", " from ">> \o url]
    ELSE IF r.len > max_size
    THEN [ok |-> FALSE, cause |-> "exceeds",
          msg |-> <<"Downloaded data exceeds maximum size", " from ">> \o url]
    ELSE IF ~is_valid_image_magic(r)
    THEN [ok |-> FALSE, cause |-> "magic",
          msg |-> <<"Downloaded file does not appear to be a valid image from ">> \o url]
    ELSE IF ~r.create
    THEN [ok |-> FALSE, cause |-> "create",
          msg |-> <<"Failed to create file ", dest, ": ", "os error">>]
    ELSE IF ~r.write
    THEN [ok |-> FALSE, cause |-> "write",
          msg |-> <<"Failed to write to file", ": ", "os error">>]
    ELSE [ok |-> TRUE, cause |-> "ok", msg |-> <<>>]

\* the attempt got as far as File::create(dest_path) succeeding: a file is at
\* dest_path, complete or not
WritesDest(a) == a.cause \in {"ok", "write"}

\* the bytes of body that response.bytes().await has taken in when the attempt
\* returns: nothing before the body is asked for, the whole body otherwise
BytesRead(r, a) ==
    IF a.cause \in {"send", "401", "403", "404", "500", "content-length"} THEN 0
    ELSE r.len

----------------------------------------------------------------------------
(* Downloader: retry classification *)

permanent_errors ==
    { <<"HTTP error ", "404">>,
      <<"HTTP error ", "403">>,
      <<"HTTP error ", "401">>,
      <<"Downloaded image is empty">>,
      <<"Image too large">>,
      <<"Failed to open image">>,
      <<"Failed to save thumbnail">> }

retriable_errors ==
    { <<"Failed to read response">>,
      <<"Failed to download">>,
      <<"timed out">>,
      <<"connection">>,
      <<"Failed to write to file">>,
      <<"error decoding">>,
      <<"interrupted">> }

\* a classification that only counts attempts
should_retry_counting(error, attempt, max_retries) == attempt < max_retries

\* a classification that compares the permanent substrings without regard to case
should_retry_caseless(error, attempt, max_retries) ==
    IF attempt >= max_retries THEN FALSE
    ELSE IF \E p \in permanent_errors : Contains(to_lowercase(error), to_lowercase(p))
    THEN FALSE
    ELSE TRUE

should_retry(error, attempt, max_retries) ==
    IF attempt >= max_retries THEN FALSE
    ELSE IF \E p \in permanent_errors : Contains(error, p) THEN FALSE
    ELSE IF \E p \in retriable_errors : Contains(to_lowercase(error), p) THEN TRUE
    ELSE TRUE

\* a backoff that does not grow
wait_time_flat(attempt) == 1000

\* 1000 * 2^(attempt - 1)
wait_time(attempt) == 1000 * (2 ^ (attempt - 1))

timeout_secs(attempt) == INITIAL_TIMEOUT_SECS + (attempt - 1) * 10

\* pieces of error texts: the permanent and the retriable substrings, the same
\* in another case, and text that is in neither list
ErrorTokens ==
    {"HTTP error ", "http error ", "404", "500", "Failed to open image",
     "failed to open image", "Image too large", "timed out", "Timed Out",
     "connection", "unknown"}

MaxErrorLen == 2

ErrorTexts == UNION { [1..n -> ErrorTokens] : n \in 0..MaxErrorLen }

NoRetry == [error |-> <<>>, attempt |-> 1, max |-> MAX_RETRIES, out |-> FALSE,
            done |-> FALSE]

\* one call of should_retry
should_retry_call ==
    /\ ~rv.done
    /\ rv' = [rv EXCEPT !.done = TRUE,
                         !.out = should_retry(rv.error, rv.attempt, rv.max)]
    /\ UNCHANGED <<tvars, env, cvars, sfile, sarg, sback, qv>>

----------------------------------------------------------------------------
(* Thumbnail batches: inputs *)

\* files the upload view may name in generate_thumbnails_from_local
LocalFiles == {"/up/photo.png", "/up/blob", "/up/gone.png"}

FileExists(f) == f # "/up/gone.png"
FileIsImage(f) == f \in {"/up/photo.png", "/up/blob", "/up/gone.png"}
HasKnownExt(f) == f # "/up/blob"

RemoteItems == {[url |-> u, file |-> ""] : u \in Urls}

LocalItems ==
    { [url |-> UrlPlain, file |-> "/up/photo.png"],
      [url |-> UrlTricky, file |-> "/up/blob"],
      [url |-> UrlPlain, file |-> "/up/gone.png"] }

SeqsUpTo(S, n) == UNION {[1..k -> S] : k \in 0..n}

BusyMsg == <<"Thumbnail generation is already in progress. Please try again later.">>

NoResult == [ok |-> FALSE, val |-> <<>>, set |-> FALSE]
Ok(v) == [ok |-> TRUE, val |-> v, set |-> TRUE]
Err(m) == [ok |-> FALSE, val |-> m, set |-> TRUE]

\* no get_thumbnail_path answer to look at
NoSeen == [url |-> <<>>, val |-> <<>>, entry |-> "absent"]

\* last: the response of the latest attempt (GoodResponse until there is one)
NewTask ==
    [st |-> "check", attempt |-> 0, causes |-> <<>>, sleeps |-> <<>>,
     val |-> <<>>, hit |-> "none", afterOk |-> FALSE, read |-> 0,
     last |-> GoodResponse]

\* thumb_<uuid><ext>: one fresh name per item of the running batch; 0 names the
\* files that ended batches left behind
TmpId(t, i) == i

Stem(t, i) == compute_url_hash(items[t][i].url)

Done(tk) == tk.st \in {"ok", "err"}

\* a task between two awaits: its siblings are not polled meanwhile
InSync(t) == \E j \in DOMAIN tasks[t] : tasks[t][j].st \in {"open", "encode", "meta"}

\* join_all polls the futures in order; each runs to its first await
FirstPollDone(t) == \A j \in DOMAIN tasks[t] : tasks[t][j].st # "check"

----------------------------------------------------------------------------
(* Thumbnail commands: the gate *)

\* a gate that admits every caller
CasAlways == TRUE

\* compare_exchange(false, true, ..) is Ok: the flag was false
CasSucceeds == gate = FALSE

\* compare_exchange succeeded and has set the flag
Acquire(t) ==
    /\ pc[t] = "idle"
    /\ CasSucceeds
    /\ gate' = TRUE
    /\ \E k \in kinds :
         /\ kind' = [kind EXCEPT ![t] = k]
         /\ \E its \in SeqsUpTo(IF k = "remote" THEN RemoteItems ELSE LocalItems, maxBatch) :
              items' = [items EXCEPT ![t] = its]
    /\ pc' = [pc EXCEPT ![t] = "impl"]
    /\ seen' = NoSeen
    /\ UNCHANGED <<tasks, result, cache, tmp, okSince, env, pvars, cvars>>

\* a rejected call that clears the flag on its way out
RejectBusyResetting(t) ==
    /\ pc[t] = "idle"
    /\ ~CasSucceeds
    /\ gate' = FALSE
    /\ pc' = [pc EXCEPT ![t] = "returned"]
    /\ result' = [result EXCEPT ![t] = Err(BusyMsg)]
    /\ seen' = NoSeen
    /\ UNCHANGED <<kind, items, tasks, cache, tmp, okSince, env, pvars, cvars>>

\* compare_exchange failed: the command (either of the two) returns the busy
\* error at once
RejectBusy(t) ==
    /\ pc[t] = "idle"
    /\ ~CasSucceeds
    /\ pc' = [pc EXCEPT ![t] = "returned"]
    /\ result' = [result EXCEPT ![t] = Err(BusyMsg)]
    /\ seen' = NoSeen
    /\ UNCHANGED <<gate, kind, items, tasks, cache, tmp, okSince, env, pvars, cvars>>

\* get_cache_dir()? / ensure_app_temp_dir()? failed
DirFail(t) ==
    /\ pc[t] = "impl"
    /\ \E m \in {<<"Failed to create cache dir ", CacheDir>>} \cup
                (IF kind[t] = "remote" THEN {<<"Failed to create app temp dir ">>} ELSE {}) :
         result' = [result EXCEPT ![t] = Err(m)]
    /\ pc' = [pc EXCEPT ![t] = "dirfail"]
    /\ seen' = NoSeen
    /\ UNCHANGED <<gate, kind, items, tasks, cache, tmp, okSince, env, pvars, cvars>>

\* the directories exist: one future per item
Spawn(t) ==
    /\ pc[t] = "impl"
    /\ tasks' = [tasks EXCEPT ![t] = [i \in 1..Len(items[t]) |-> NewTask]]
    /\ pc' = [pc EXCEPT ![t] = "run"]
    /\ seen' = NoSeen
    /\ UNCHANGED <<gate, kind, items, result, cache, tmp, okSince, env, pvars, cvars>>

----------------------------------------------------------------------------
(* Thumbnail batches: one item *)

SetTask(t, i, tk) == tasks' = [tasks EXCEPT ![t][i] = tk]

\* a path that also depends on the command that computes it
CachePathByCommand(t, i) ==
    <<CacheDir, kind[t], compute_url_hash(items[t][i].url), ".webp">>

CachePathOf(t, i) == generate_cache_path(CacheDir, items[t][i].url)

\* a store that never finds its entries
CacheExistsNever(t, i) == FALSE

\* cache_path.exists()
CacheExists(t, i) == cache[Stem(t, i)] # "absent"

\* cache_path.exists() is true: the item returns the path, nothing else runs
CacheHit(t, i) ==
    /\ pc[t] = "run" /\ i \in DOMAIN tasks[t]
    /\ tasks[t][i].st = "check"
    /\ \A j \in 1..(i - 1) : tasks[t][j].st # "check"
    /\ ~InSync(t)
    /\ CacheExists(t, i)
    /\ SetTask(t, i, [tasks[t][i] EXCEPT !.st = "ok", !.val = CachePathOf(t, i),
                                         !.hit = cache[Stem(t, i)],
                                         !.afterOk = okSince[items[t][i].url]])
    /\ okSince' = [okSince EXCEPT ![items[t][i].url] = TRUE]
    /\ seen' = NoSeen
    /\ UNCHANGED <<gate, pc, kind, items, result, cache, tmp, env, pvars, cvars>>

\* process_single_thumbnail, cache miss: the first request is sent
MissRemote(t, i) ==
    /\ pc[t] = "run" /\ i \in DOMAIN tasks[t]
    /\ kind[t] = "remote"
    /\ tasks[t][i].st = "check"
    /\ \A j \in 1..(i - 1) : tasks[t][j].st # "check"
    /\ ~InSync(t)
    /\ ~CacheExists(t, i)
    /\ SetTask(t, i, [tasks[t][i] EXCEPT !.st = "dl", !.attempt = 1,
                                         !.afterOk = okSince[items[t][i].url]])
    /\ seen' = NoSeen
    /\ UNCHANGED <<gate, pc, kind, items, result, cache, tmp, okSince, env, pvars, cvars>>

\* process_thumbnail_from_local, cache miss: the checks before compress_to_thumbnail
LocalOutcome(f, copyOk) ==
    IF ~FileExists(f) THEN Err(<<"Local file not found: ", f>>)
    ELSE IF ~FileIsImage(f)
    THEN Err(<<"Local file does not appear to be a valid image: ", f>>)
    ELSE IF ~HasKnownExt(f) /\ ~copyOk
    THEN Err(<<"Failed to create temporary file ">>)
    ELSE Ok(<<>>)

MissLocal(t, i) ==
    /\ pc[t] = "run" /\ i \in DOMAIN tasks[t]
    /\ kind[t] = "local"
    /\ tasks[t][i].st = "check"
    /\ \A j \in 1..(i - 1) : tasks[t][j].st # "check"
    /\ ~InSync(t)
    /\ ~CacheExists(t, i)
    /\ \E copyOk \in BOOLEAN :
         LET f == items[t][i].file
             o == LocalOutcome(f, copyOk)
         IN /\ SetTask(t, i, [tasks[t][i] EXCEPT
                                 !.st = IF o.ok THEN "open" ELSE "err",
                                 !.val = o.val,
                                 !.afterOk = okSince[items[t][i].url]])
            /\ tmp' = IF o.ok /\ ~HasKnownExt(f) THEN tmp \cup {TmpId(t, i)} ELSE tmp
    /\ seen' = NoSeen
    /\ UNCHANGED <<gate, pc, kind, items, result, cache, okSince, env, pvars, cvars>>

\* a retry loop that asks only whether the error is permanent: the last failure
\* is slept on too, and the loop falls through to the summary error
RespondAggregating(t, i) ==
    /\ pc[t] = "run" /\ i \in DOMAIN tasks[t]
    /\ tasks[t][i].st = "dl"
    /\ FirstPollDone(t)
    /\ ~InSync(t)
    /\ \E r \in responses :
         LET tk == tasks[t][i]
             a == download_image_attempt(items[t][i].url, r, "thumb_uuid", MAX_SIZE)
         IN /\ tmp' = IF WritesDest(a) THEN tmp \cup {TmpId(t, i)} ELSE tmp
            /\ SetTask(t, i,
                 IF a.ok THEN [tk EXCEPT !.st = "open", !.read = BytesRead(r, a),
                                         !.last = r]
                 ELSE IF should_retry(a.msg, 1, MAX_RETRIES) /\ tk.attempt < MAX_RETRIES
                 THEN [tk EXCEPT !.attempt = @ + 1,
                                 !.causes = Append(@, a.cause),
                                 !.sleeps = Append(@, wait_time(tk.attempt)),
                                 !.read = BytesRead(r, a),
                                 !.last = r]
                 ELSE IF should_retry(a.msg, 1, MAX_RETRIES)
                 THEN [tk EXCEPT !.st = "err",
                                 !.causes = Append(@, a.cause),
                                 !.sleeps = Append(@, wait_time(tk.attempt)),
                                 !.val = <<"Failed to download", " ">> \o items[t][i].url
                                            \o <<" after ", "3", " attempts: ">> \o a.msg,
                                 !.read = BytesRead(r, a),
                                 !.last = r]
                 ELSE [tk EXCEPT !.st = "err",
                                 !.causes = Append(@, a.cause),
                                 !.val = a.msg,
                                 !.read = BytesRead(r, a),
                                 !.last = r])
    /\ seen' = NoSeen
    /\ UNCHANGED <<gate, pc, kind, items, result, cache, okSince, env, pvars, cvars>>

\* download_image: one attempt ends. Ok: the file is written. Err: should_retry
\* decides between returning the error and sleeping wait_time before the next
\* attempt (the task stays suspended from the failed attempt to the next answer)
Respond(t, i) ==
    /\ pc[t] = "run" /\ i \in DOMAIN tasks[t]
    /\ tasks[t][i].st = "dl"
    /\ FirstPollDone(t)
    /\ ~InSync(t)
    /\ \E r \in responses :
         LET tk == tasks[t][i]
             a == download_image_attempt(items[t][i].url, r, "thumb_uuid", MAX_SIZE)
         IN /\ tmp' = IF WritesDest(a) THEN tmp \cup {TmpId(t, i)} ELSE tmp
            /\ SetTask(t, i,
                 IF a.ok THEN [tk EXCEPT !.st = "open", !.read = BytesRead(r, a),
                                         !.last = r]
                 ELSE IF should_retry(a.msg, tk.attempt, MAX_RETRIES)
                 THEN [tk EXCEPT !.attempt = @ + 1,
                                 !.causes = Append(@, a.cause),
                                 !.sleeps = Append(@, wait_time(tk.attempt)),
                                 !.read = BytesRead(r, a),
                                 !.last = r]
                 ELSE [tk EXCEPT !.st = "err",
                                 !.causes = Append(@, a.cause),
                                 !.val = a.msg,
                                 !.read = BytesRead(r, a),
                                 !.last = r])
    /\ seen' = NoSeen
    /\ UNCHANGED <<gate, pc, kind, items, result, cache, okSince, env, pvars, cvars>>

\* the file compress_to_thumbnail reads is there
InputPresent(t, i) ==
    \/ kind[t] = "local" /\ HasKnownExt(items[t][i].file)
    \/ TmpId(t, i) \in tmp

\* compress_to_thumbnail: image::open failed
OpenFail(t, i) ==
    /\ pc[t] = "run" /\ i \in DOMAIN tasks[t]
    /\ tasks[t][i].st = "open"
    /\ SetTask(t, i, [tasks[t][i] EXCEPT !.st = "err",
                         !.val = <<"Failed to open image", " ", "input", ": ", "image error">>])
    /\ seen' = NoSeen
    /\ UNCHANGED <<gate, pc, kind, items, result, cache, tmp, okSince, env, pvars, cvars>>

\* compress_to_thumbnail: decoded and resized; save_with_format has created the file
OpenOk(t, i) ==
    /\ pc[t] = "run" /\ i \in DOMAIN tasks[t]
    /\ tasks[t][i].st = "open"
    /\ InputPresent(t, i)
    /\ cache' = [cache EXCEPT ![Stem(t, i)] = "partial"]
    /\ SetTask(t, i, [tasks[t][i] EXCEPT !.st = "encode"])
    /\ seen' = NoSeen
    /\ UNCHANGED <<gate, pc, kind, items, result, tmp, okSince, env, pvars, cvars>>

\* a failed save that removes the file it had created
EncodeFailRemoving(t, i) ==
    /\ pc[t] = "run" /\ i \in DOMAIN tasks[t]
    /\ tasks[t][i].st = "encode"
    /\ cache' = [cache EXCEPT ![Stem(t, i)] = "absent"]
    /\ SetTask(t, i, [tasks[t][i] EXCEPT !.st = "err",
                         !.val = <<"Failed to save thumbnail", " to ", "output", ": ", "image error">>])
    /\ seen' = NoSeen
    /\ UNCHANGED <<gate, pc, kind, items, result, tmp, okSince, env, pvars, cvars>>

\* save_with_format failed after creating the file
EncodeFail(t, i) ==
    /\ pc[t] = "run" /\ i \in DOMAIN tasks[t]
    /\ tasks[t][i].st = "encode"
    /\ SetTask(t, i, [tasks[t][i] EXCEPT !.st = "err",
                         !.val = <<"Failed to save thumbnail", " to ", "output", ": ", "image error">>])
    /\ seen' = NoSeen
    /\ UNCHANGED <<gate, pc, kind, items, result, cache, tmp, okSince, env, pvars, cvars>>

\* save_with_format wrote the whole thumbnail
EncodeOk(t, i) ==
    /\ pc[t] = "run" /\ i \in DOMAIN tasks[t]
    /\ tasks[t][i].st = "encode"
    /\ cache' = [cache EXCEPT ![Stem(t, i)] = IF @ = "absent" THEN "absent" ELSE "complete"]
    /\ SetTask(t, i, [tasks[t][i] EXCEPT !.st = "meta"])
    /\ seen' = NoSeen
    /\ UNCHANGED <<gate, pc, kind, items, result, tmp, okSince, env, pvars, cvars>>

\* fs::metadata(output_path) failed: the entry was removed meanwhile
MetaFail(t, i) ==
    /\ pc[t] = "run" /\ i \in DOMAIN tasks[t]
    /\ tasks[t][i].st = "meta"
    /\ cache[Stem(t, i)] = "absent"
    /\ SetTask(t, i, [tasks[t][i] EXCEPT !.st = "err",
                         !.val = <<"Failed to get output file metadata: ", "os error">>])
    /\ seen' = NoSeen
    /\ UNCHANGED <<gate, pc, kind, items, result, cache, tmp, okSince, env, pvars, cvars>>

\* compress_to_thumbnail returned Ok: remove the temporary file, return the path
Finish(t, i) ==
    /\ pc[t] = "run" /\ i \in DOMAIN tasks[t]
    /\ tasks[t][i].st = "meta"
    /\ cache[Stem(t, i)] # "absent"
    /\ tmp' = tmp \ {TmpId(t, i)}
    /\ SetTask(t, i, [tasks[t][i] EXCEPT !.st = "ok", !.val = CachePathOf(t, i)])
    /\ okSince' = [okSince EXCEPT ![items[t][i].url] = TRUE]
    /\ seen' = NoSeen
    /\ UNCHANGED <<gate, pc, kind, items, result, cache, env, pvars, cvars>>

----------------------------------------------------------------------------
(* Thumbnail batches: the whole call *)

RECURSIVE OkPathsReversed(_)
\* a loop that puts each path in front of the earlier ones
OkPathsReversed(ts) ==
    IF ts = <<>> THEN <<>>
    ELSE IF Head(ts).st = "ok" THEN OkPathsReversed(Tail(ts)) \o <<Head(ts).val>>
    ELSE OkPathsReversed(Tail(ts))

RECURSIVE OkPaths(_)
\* the loop over join_all's results: Ok paths are pushed, Err items are skipped
OkPaths(ts) ==
    IF ts = <<>> THEN <<>>
    ELSE IF Head(ts).st = "ok" THEN <<Head(ts).val>> \o OkPaths(Tail(ts))
    ELSE OkPaths(Tail(ts))

failed_count(ts) == Cardinality({j \in DOMAIN ts : ts[j].st = "err"})

\* a batch that fails as soon as one item failed
BatchValueAnyFail(ts) ==
    IF failed_count(ts) > 0
    THEN Err(<<"Failed to generate all ", "n", " thumbnails">>)
    ELSE Ok(OkPaths(ts))

\* a result that keeps one position per input and leaves a failed item's empty
BatchValueWithHoles(ts) ==
    IF failed_count(ts) > 0 /\ OkPaths(ts) = <<>>
    THEN Err(<<"Failed to generate all ", "n", " thumbnails">>)
    ELSE Ok([k \in 1..Len(ts) |-> IF ts[k].st = "ok" THEN ts[k].val ELSE <<>>])

\* the value generate_thumbnails_impl returns once join_all is ready
BatchValue(ts) ==
    IF failed_count(ts) > 0 /\ OkPaths(ts) = <<>>
    THEN Err(<<"Failed to generate all ", "n", " thumbnails">>)
    ELSE Ok(OkPaths(ts))

\* join_all is ready
Join(t) ==
    /\ pc[t] = "run"
    /\ \A j \in DOMAIN tasks[t] : Done(tasks[t][j])
    /\ result' = [result EXCEPT ![t] = BatchValue(tasks[t])]
    /\ pc' = [pc EXCEPT ![t] = "joined"]
    /\ seen' = NoSeen
    /\ UNCHANGED <<gate, kind, items, tasks, cache, tmp, okSince, env, pvars, cvars>>

\* files of the temp directory that no running item owns any more
Orphaned(t) ==
    IF \E i \in DOMAIN tasks[t] : TmpId(t, i) \in tmp
    THEN (tmp \ {TmpId(t, i) : i \in DOMAIN tasks[t]}) \cup {0}
    ELSE tmp

\* a release that leaves the flag as it is
StoreStale == gate

\* the value GENERATING_THUMBNAILS.store(false, ..) writes
StoreFalse == FALSE

\* generate_thumbnails_impl has returned (pc is "joined" or "dirfail"):
\* GENERATING_THUMBNAILS.store(false), then the command returns result to its
\* caller, who may call again
Release(t) ==
    /\ pc[t] \in {"joined", "dirfail"}
    /\ gate' = StoreFalse
    /\ pc' = [pc EXCEPT ![t] = "idle"]
    /\ kind' = [kind EXCEPT ![t] = "remote"]
    /\ items' = [items EXCEPT ![t] = <<>>]
    /\ tasks' = [tasks EXCEPT ![t] = <<>>]
    /\ result' = [result EXCEPT ![t] = NoResult]
    /\ tmp' = Orphaned(t)
    /\ seen' = NoSeen
    /\ UNCHANGED <<cache, okSince, env, pvars, cvars>>

\* the caller of a rejected command has its answer; it may call again
Return(t) ==
    /\ pc[t] = "returned"
    /\ pc' = [pc EXCEPT ![t] = "idle"]
    /\ result' = [result EXCEPT ![t] = NoResult]
    /\ seen' = NoSeen
    /\ UNCHANGED <<gate, kind, items, tasks, cache, tmp, okSince, env, pvars, cvars>>

\* the future of the command is dropped or unwinds while generate_thumbnails_impl
\* is awaited: nothing after the await runs
Abandon(t) ==
    /\ pc[t] \in {"impl", "run"}
    /\ pc' = [pc EXCEPT ![t] = "idle"]
    /\ items' = [items EXCEPT ![t] = <<>>]
    /\ tasks' = [tasks EXCEPT ![t] = <<>>]
    /\ kind' = [kind EXCEPT ![t] = "remote"]
    /\ tmp' = Orphaned(t)
    /\ seen' = NoSeen
    /\ UNCHANGED <<gate, result, cache, okSince, env, pvars, cvars>>

----------------------------------------------------------------------------
(* Commands outside the gate *)

\* a lookup that answers the busy error while a batch holds the gate
get_thumbnail_path_gated(url) ==
    /\ seen' = [url |-> url,
                val |-> IF gate THEN BusyMsg
                        ELSE IF cache[compute_url_hash(url)] # "absent"
                        THEN generate_cache_path(CacheDir, url) ELSE <<>>,
                entry |-> cache[compute_url_hash(url)]]
    /\ UNCHANGED <<gate, pc, kind, items, tasks, result, cache, tmp, okSince, env, pvars, cvars>>

get_thumbnail_path(url) ==
    /\ seen' = [url |-> url,
                val |-> IF cache[compute_url_hash(url)] # "absent"
                        THEN generate_cache_path(CacheDir, url) ELSE <<>>,
                entry |-> cache[compute_url_hash(url)]]
    /\ UNCHANGED <<gate, pc, kind, items, tasks, result, cache, tmp, okSince, env, pvars, cvars>>

clear_thumbnail_cache ==
    /\ cache' = [s \in Stems |-> "absent"]
    /\ okSince' = [u \in Urls |-> FALSE]
    /\ seen' = NoSeen
    /\ UNCHANGED <<gate, pc, kind, items, tasks, result, tmp, env, pvars, cvars>>

clean_app_temp_dir ==
    /\ tmp' = {}
    /\ cfiles' = {}
    /\ cwork' = [i \in DOMAIN cwork |->
                   IF cwork[i].art \in cfiles THEN [cwork[i] EXCEPT !.cleaned = TRUE]
                   ELSE cwork[i]]
    /\ seen' = NoSeen
    /\ UNCHANGED <<gate, pc, kind, items, tasks, result, cache, okSince, env, pvars,
                   cpaths, cv, cout, cdata>>

----------------------------------------------------------------------------
(* Compression: image bytes, settings, encoders *)

\* Image bytes, by what the code looks at: the container guess_format finds
\* ("none" when it finds none), the frames a decoder yields, whether the four
\* bytes ANIM occur somewhere, whether the image decodes
PngBytes == [magic |-> "Png", frames |-> 1, anim_bytes |-> FALSE, decodes |-> TRUE]
JpegBytes == [magic |-> "Jpeg", frames |-> 1, anim_bytes |-> FALSE, decodes |-> TRUE]
BmpBytes == [magic |-> "Bmp", frames |-> 1, anim_bytes |-> FALSE, decodes |-> TRUE]
WebpBytes == [magic |-> "WebP", frames |-> 1, anim_bytes |-> FALSE, decodes |-> TRUE]
WebpAnimBytes == [magic |-> "WebP", frames |-> 2, anim_bytes |-> TRUE, decodes |-> TRUE]
\* a one-frame WebP whose data happens to hold the bytes ANIM
WebpStillAnimBytes == [magic |-> "WebP", frames |-> 1, anim_bytes |-> TRUE, decodes |-> TRUE]
GifBytes == [magic |-> "Gif", frames |-> 1, anim_bytes |-> FALSE, decodes |-> TRUE]
GifAnimBytes == [magic |-> "Gif", frames |-> 2, anim_bytes |-> FALSE, decodes |-> TRUE]
TextBytes == [magic |-> "none", frames |-> 0, anim_bytes |-> FALSE, decodes |-> FALSE]
PngTruncatedBytes == [magic |-> "Png", frames |-> 1, anim_bytes |-> FALSE, decodes |-> FALSE]
\* the GIF signature, followed by a header GifDecoder::new cannot read
GifBrokenBytes == [magic |-> "Gif", frames |-> 0, anim_bytes |-> FALSE, decodes |-> FALSE]

Buffers ==
    { PngBytes, JpegBytes, BmpBytes, WebpBytes, WebpAnimBytes, WebpStillAnimBytes,
      GifBytes, GifAnimBytes, TextBytes, PngTruncatedBytes, GifBrokenBytes }

\* u8 values of the quality argument
Qualities == {0, 60, 100, 255}

AllSettings ==
    [quality : Qualities,
     mode : {"original_format", "webp"},
     force_animated_webp : BOOLEAN,
     png_mode : {"lossy", "lossless"},
     png_optimization : {"best", "default", "fast"}]

\* the settings of the behaviours that do not vary them
BatchSettings ==
    [quality |-> 60, mode |-> "webp", force_animated_webp |-> FALSE,
     png_mode |-> "lossless", png_optimization |-> "default"]

\* a classifier that looks at the app temp directory as well as at the bytes
detect_format_and_kind_by_state(b) ==
    IF b.magic = "none" THEN Err(<<"guess format: ", "unsupported">>)
    ELSE IF b.magic = "Gif" /\ b.frames = 0 /\ ~b.decodes
    THEN Err(<<"gif decode: ", "decoder">>)
    ELSE IF cfiles # {} THEN Ok([animated |-> FALSE, fmt |-> b.magic])
    ELSE Ok([animated |-> \/ b.magic = "Gif" /\ b.frames >= 2
                          \/ b.magic = "WebP" /\ b.anim_bytes,
             fmt |-> b.magic])

\* a classifier that takes every WebP for a static image
detect_format_and_kind_webp_static(b) ==
    IF b.magic = "none" THEN Err(<<"guess format: ", "unsupported">>)
    ELSE IF b.magic = "Gif" /\ b.frames = 0 /\ ~b.decodes
    THEN Err(<<"gif decode: ", "decoder">>)
    ELSE Ok([animated |-> b.magic = "Gif" /\ b.frames >= 2, fmt |-> b.magic])

detect_format_and_kind(b) ==
    IF b.magic = "none" THEN Err(<<"guess format: ", "unsupported">>)
    ELSE IF b.magic = "Gif" /\ b.frames = 0 /\ ~b.decodes
    THEN Err(<<"gif decode: ", "decoder">>)
    ELSE IF b.magic = "Gif"
    THEN (IF b.frames >= 2 THEN Ok([animated |-> TRUE, fmt |-> "Gif"])
          ELSE Ok([animated |-> FALSE, fmt |-> "Gif"]))
    ELSE IF b.magic = "WebP"
    THEN (IF b.anim_bytes THEN Ok([animated |-> TRUE, fmt |-> "WebP"])
          ELSE Ok([animated |-> FALSE, fmt |-> "WebP"]))
    ELSE Ok([animated |-> FALSE, fmt |-> b.magic])

\* What an artifact holds: its container, the encoder that produced it ("none":
\* the input bytes were written as they are), the quality that encoder was
\* given, the quantisation step and the deflate level of the PNG encoder, the
\* frames, the repeat setting, the bytes it was made from.
Artifact(fmt, enc, q, step, level, frames, repeat, b) ==
    [fmt |-> fmt, enc |-> enc, q |-> q, step |-> step, level |-> level,
     frames |-> frames, repeat |-> repeat, same |-> enc = "none", from |-> b]

\* the step of the lossy PNG table
png_step(quality) ==
    IF quality <= 10 THEN 48
    ELSE IF quality <= 25 THEN 32
    ELSE IF quality <= 45 THEN 16
    ELSE IF quality <= 65 THEN 8
    ELSE IF quality <= 85 THEN 4
    ELSE IF quality <= 95 THEN 2
    ELSE 1

encode_png(b, quality, png_mode, png_optimization) ==
    Artifact("Png", "png", quality,
             IF png_mode = "lossy" THEN png_step(quality) ELSE 1,
             png_optimization, 1, "none", b)

encode_jpeg(b, quality) == Artifact("Jpeg", "jpeg", quality, 1, "none", 1, "none", b)

\* a WebP encoder that writes a JPEG
encode_webp_static_as_jpeg(b, quality) == encode_jpeg(b, quality)

encode_webp_static(b, quality) == Artifact("WebP", "webp", quality, 1, "none", 1, "none", b)

\* a dispatch that knows one encoder
encode_to_format_webp(b, format, quality, png_mode, png_optimization) ==
    encode_webp_static(b, quality)

encode_to_format(b, format, quality, png_mode, png_optimization) ==
    IF format = "Png" THEN encode_png(b, quality, png_mode, png_optimization)
    ELSE IF format = "Jpeg" THEN encode_jpeg(b, quality)
    ELSE IF format = "WebP" THEN encode_webp_static(b, quality)
    ELSE Artifact(format, "write_to", quality, 1, "none", 1, "none", b)

reencode_gif_frames(b, quality) ==
    IF ~b.decodes THEN Err(<<"gif frame: ", "decoder">>)
    ELSE Ok(Artifact("Gif", "gif", quality, 1, "none", b.frames, "infinite", b))

animated_to_webp(b, quality) ==
    IF ~b.decodes THEN Err(<<"decode first frame: ", "decoder">>)
    ELSE Ok(encode_webp_static(b, quality))

\* tmp.write_all(&bytes): the input as it is
passthrough(b) == Artifact(b.magic, "none", 0, 1, "none", b.frames, "none", b)

NoArtifact == Artifact("none", "none", 0, 1, "none", 0, "none", TextBytes)

\* no classification yet
NoKind == [animated |-> FALSE, fmt |-> "none"]

\* k: what detect_format_and_kind returned for the buffer
NoData ==
    [buf |-> PngBytes, st |-> "idle", res |-> NoResult, out |-> NoArtifact,
     k |-> NoKind, cause |-> "none"]

----------------------------------------------------------------------------
(* Lossy PNG: quantisation of one channel *)

\* u16 arithmetic
U16(n) == n % 65536

Min(a, b) == IF a <= b THEN a ELSE b

\* a quantiser that rounds down
quantize_channel_floor(value, step) ==
    IF step <= 1 THEN value ELSE (value \div step) * step

\* rounded = ((value + step / 2) / step) * step in u16; rounded.min(255) as u8
quantize_channel(value, step) ==
    IF step <= 1 THEN value
    ELSE Min(U16(U16(U16(value + step \div 2) \div step) * step), 255)

\* one quality of each row of the step table
PixelQualities == {5, 20, 40, 60, 80, 90, 100}

ChannelValues == 0..255

NoPixel == [quality |-> 100, value |-> 0, out |-> 0, done |-> FALSE]

\* encode_png in mode lossy, for one channel of one pixel: quantised when the
\* step of the quality is above 1
encode_png_pixel ==
    /\ ~qv.done
    /\ qv' = [qv EXCEPT !.done = TRUE,
                         !.out = IF png_step(qv.quality) > 1
                                 THEN quantize_channel(qv.value, png_step(qv.quality))
                                 ELSE qv.value]
    /\ UNCHANGED <<tvars, env, cvars, sfile, sarg, sback, rv>>

----------------------------------------------------------------------------
(* Settings: SettingsPayload, settings.json *)

default_max_concurrent_uploads == 5

SettingsDefault ==
    [quality |-> 80, convert_to_webp |-> FALSE,
     png_compression_mode |-> "lossless", png_optimization |-> "default",
     enable_upload_compression |-> FALSE,
     max_concurrent_uploads |-> default_max_concurrent_uploads]

\* the fields of the struct, in the order of the declaration
SettingsFields ==
    {"quality", "convert_to_webp", "png_compression_mode", "png_optimization",
     "enable_upload_compression", "max_concurrent_uploads"}

\* the payloads a client may send
Payloads ==
    [quality : {75, 255},
     convert_to_webp : BOOLEAN,
     png_compression_mode : {"lossy", "lossless"},
     png_optimization : {"best", "default", "fast"},
     enable_upload_compression : BOOLEAN,
     max_concurrent_uploads : {0, 3}]

\* serde(rename_all = "camelCase"): the key a field is written under
camelCase(field) ==
    CASE field = "quality" -> "quality"
      [] field = "convert_to_webp" -> "convertToWebp"
      [] field = "png_compression_mode" -> "pngCompressionMode"
      [] field = "png_optimization" -> "pngOptimization"
      [] field = "enable_upload_compression" -> "enableUploadCompression"
      [] field = "max_concurrent_uploads" -> "maxConcurrentUploads"

\* self.quality.min(100), max_concurrent_uploads.clamp(1, 5)
clamped(p) ==
    [p EXCEPT !.quality = Min(@, 100),
              !.max_concurrent_uploads =
                  IF @ < 1 THEN 1
                  ELSE Min(@, default_max_concurrent_uploads)]

\* serde_json::to_string_pretty: a JSON object, one key per field of the struct
to_string_pretty(p) ==
    [k \in {camelCase(f) : f \in SettingsFields} |->
        p[CHOOSE f \in SettingsFields : camelCase(f) = k]]

\* serde_json::from_str: quality and convertToWebp are required, the other
\* fields have defaults, pngMode is accepted for pngCompressionMode, unknown
\* keys are ignored
from_str(j) ==
    IF ~({"quality", "convertToWebp"} \subseteq DOMAIN j)
    THEN Err(<<"parse ", "settings.json", ": ", "missing field">>)
    ELSE Ok([quality |-> j["quality"],
             convert_to_webp |-> j["convertToWebp"],
             png_compression_mode |->
                 IF "pngCompressionMode" \in DOMAIN j THEN j["pngCompressionMode"]
                 ELSE IF "pngMode" \in DOMAIN j THEN j["pngMode"]
                 ELSE "lossless",
             png_optimization |->
                 IF "pngOptimization" \in DOMAIN j THEN j["pngOptimization"]
                 ELSE "default",
             enable_upload_compression |->
                 IF "enableUploadCompression" \in DOMAIN j
                 THEN j["enableUploadCompression"] ELSE FALSE,
             max_concurrent_uploads |->
                 IF "maxConcurrentUploads" \in DOMAIN j
                 THEN j["maxConcurrentUploads"]
                 ELSE default_max_concurrent_uploads])

\* read_payload: the default when there is no file, else the parsed value, clamped
read_payload ==
    IF sfile = {} THEN Ok(SettingsDefault)
    ELSE LET parsed == from_str(CHOOSE j \in sfile : TRUE)
         IN IF parsed.ok THEN Ok(clamped(parsed.val)) ELSE parsed

\* save_settings -> write_payload: clamp, serialise, write
save_settings(p) ==
    /\ sarg' = p
    /\ sfile' = {to_string_pretty(clamped(p))}
    /\ sback' = NoResult
    /\ UNCHANGED <<tvars, env, cvars, qv, rv>>

\* load_settings -> read_payload
load_settings ==
    /\ ~sback.set
    /\ sback' = read_payload
    /\ UNCHANGED <<tvars, env, cvars, sfile, sarg, qv, rv>>

----------------------------------------------------------------------------
(* Thumbnail specification *)

BatchResponses ==
    { GoodResponse,
      [GoodResponse EXCEPT !.status = 404] }

IdleBatches ==
    /\ gate = FALSE
    /\ pc = [t \in Callers |-> "idle"]
    /\ kind = [t \in Callers |-> "remote"]
    /\ items = [t \in Callers |-> <<>>]
    /\ tasks = [t \in Callers |-> <<>>]
    /\ result = [t \in Callers |-> NoResult]
    /\ cache = [s \in Stems |-> "absent"]
    /\ tmp = {}
    /\ seen = NoSeen
    /\ okSince = [u \in Urls |-> FALSE]
    /\ cv = <<>>
    /\ cout = NoResult
    /\ cfiles = {}

\* no settings file yet
NoSettings ==
    /\ sfile = {}
    /\ sarg = SettingsDefault
    /\ sback = NoResult

Idle ==
    /\ IdleBatches
    /\ NoSettings
    /\ qv = NoPixel
    /\ rv = NoRetry

\* several clients, short batches
InitGate ==
    /\ Idle
    /\ responses = BatchResponses
    /\ maxBatch = GateItems
    /\ callers = Callers
    /\ kinds = {"remote", "local"}
    /\ settings = BatchSettings
    /\ cdata = NoData
    /\ cpaths = <<>>
    /\ cwork = <<>>

\* one client calling again and again, batches of up to MaxItems
InitBatch ==
    /\ Idle
    /\ responses = BatchResponses
    /\ maxBatch = MaxItems
    /\ callers = {1}
    /\ kinds = {"remote", "local"}
    /\ settings = BatchSettings
    /\ cdata = NoData
    /\ cpaths = <<>>
    /\ cwork = <<>>

ItemIdx == 1..(MaxItems + 1)

NextThumb ==
    \/ \E t \in callers : Acquire(t)
    \/ \E t \in callers : RejectBusy(t)
    \/ \E t \in callers : DirFail(t)
    \/ \E t \in callers : Spawn(t)
    \/ \E t \in callers, i \in ItemIdx : CacheHit(t, i)
    \/ \E t \in callers, i \in ItemIdx : MissRemote(t, i)
    \/ \E t \in callers, i \in ItemIdx : MissLocal(t, i)
    \/ \E t \in callers, i \in ItemIdx : Respond(t, i)
    \/ \E t \in callers, i \in ItemIdx : OpenFail(t, i)
    \/ \E t \in callers, i \in ItemIdx : OpenOk(t, i)
    \/ \E t \in callers, i \in ItemIdx : EncodeFail(t, i)
    \/ \E t \in callers, i \in ItemIdx : EncodeOk(t, i)
    \/ \E t \in callers, i \in ItemIdx : MetaFail(t, i)
    \/ \E t \in callers, i \in ItemIdx : Finish(t, i)
    \/ \E t \in callers : Join(t)
    \/ \E t \in callers : Release(t)
    \/ \E t \in callers : Return(t)
    \/ \E t \in callers : Abandon(t)
    \/ \E u \in Urls : get_thumbnail_path(u)
    \/ clear_thumbnail_cache
    \/ clean_app_temp_dir

SpecGate == InitGate /\ [][NextThumb]_vars

SpecBatch == InitBatch /\ [][NextThumb]_vars

\* the responses that depart from GoodResponse in at most one respect: every
\* outcome of download_image_attempt is the outcome of one of them
DownloadResponses ==
    { r \in AllResponses :
        Cardinality({ f \in DOMAIN r : r[f] # GoodResponse[f] }) <= 1 }

\* download_image alone: one client, one url per call
InitDownload ==
    /\ Idle
    /\ responses = DownloadResponses
    /\ maxBatch = 1
    /\ callers = {1}
    /\ kinds = {"remote"}
    /\ settings = BatchSettings
    /\ cdata = NoData
    /\ cpaths = <<>>
    /\ cwork = <<>>

NextDownload ==
    \/ Acquire(1)
    \/ Spawn(1)
    \/ CacheHit(1, 1)
    \/ MissRemote(1, 1)
    \/ Respond(1, 1)
    \/ OpenFail(1, 1)
    \/ OpenOk(1, 1)
    \/ EncodeFail(1, 1)
    \/ EncodeOk(1, 1)
    \/ Finish(1, 1)
    \/ Join(1)
    \/ Release(1)

SpecDownload == InitDownload /\ [][NextDownload]_vars

----------------------------------------------------------------------------
(* compress_images *)

\* a match that sends every animated input to WebP under mode webp
TranscodeByMode(b, k, quality, mode, force_animated_webp, png_mode, png_optimization) ==
    IF ~k.animated /\ mode = "original_format"
    THEN (IF ~b.decodes THEN Err(<<"decode: ", "decoder">>)
          ELSE Ok(encode_to_format(b, k.fmt, quality, png_mode, png_optimization)))
    ELSE IF ~k.animated
    THEN (IF ~b.decodes THEN Err(<<"decode: ", "decoder">>)
          ELSE Ok(encode_webp_static(b, quality)))
    ELSE IF mode = "webp" THEN animated_to_webp(b, quality)
    ELSE (IF k.fmt = "Gif" THEN reencode_gif_frames(b, quality) ELSE Ok(passthrough(b)))

\* the match on (kind, mode) of process_one: what is written to the temp file
Transcode(b, k, quality, mode, force_animated_webp, png_mode, png_optimization) ==
    IF ~k.animated /\ mode = "original_format"
    THEN (IF ~b.decodes THEN Err(<<"decode: ", "decoder">>)
          ELSE Ok(encode_to_format(b, k.fmt, quality, png_mode, png_optimization)))
    ELSE IF ~k.animated
    THEN (IF ~b.decodes THEN Err(<<"decode: ", "decoder">>)
          ELSE Ok(encode_webp_static(b, quality)))
    ELSE IF force_animated_webp
    THEN (IF k.fmt = "WebP" THEN Ok(passthrough(b)) ELSE animated_to_webp(b, quality))
    ELSE (IF k.fmt = "Gif" THEN reencode_gif_frames(b, quality) ELSE Ok(passthrough(b)))

\* a process_data that decodes whatever it is given and encodes one still image
TranscodeDataStill(b, k, quality, mode, force_animated_webp, png_mode, png_optimization) ==
    IF ~b.decodes THEN Err(<<"decode: ", "decoder">>)
    ELSE IF mode = "original_format"
    THEN Ok(encode_to_format(b, k.fmt, quality, png_mode, png_optimization))
    ELSE Ok(encode_webp_static(b, quality))

\* the same match in process_data
TranscodeData(b, k, quality, mode, force_animated_webp, png_mode, png_optimization) ==
    IF ~k.animated /\ mode = "original_format"
    THEN (IF ~b.decodes THEN Err(<<"decode: ", "decoder">>)
          ELSE Ok(encode_to_format(b, k.fmt, quality, png_mode, png_optimization)))
    ELSE IF ~k.animated
    THEN (IF ~b.decodes THEN Err(<<"decode: ", "decoder">>)
          ELSE Ok(encode_webp_static(b, quality)))
    ELSE IF force_animated_webp
    THEN (IF k.fmt = "WebP" THEN Ok(passthrough(b)) ELSE animated_to_webp(b, quality))
    ELSE (IF k.fmt = "Gif" THEN reencode_gif_frames(b, quality) ELSE Ok(passthrough(b)))

\* a clamp that lets every u8 through
clamp_quality_none(quality) == quality

\* quality.min(100)
clamp_quality(quality) == IF quality < 100 THEN quality ELSE 100

\* Input files of compress_images, by name, and what they hold
PathGood == <<"in/", "a.png">>
PathMissing == <<"in/", "missing.png">>

CPaths == {PathGood, PathMissing}

PathOf(b) ==
    CASE b = PngBytes -> PathGood
      [] b = JpegBytes -> <<"in/", "b.jpg">>
      [] b = BmpBytes -> <<"in/", "c.bmp">>
      [] b = WebpBytes -> <<"in/", "d.webp">>
      [] b = WebpAnimBytes -> <<"in/", "e.webp">>
      [] b = WebpStillAnimBytes -> <<"in/", "f.webp">>
      [] b = GifBytes -> <<"in/", "g.gif">>
      [] b = GifAnimBytes -> <<"in/", "h.gif">>
      [] b = TextBytes -> <<"in/", "i.txt">>
      [] b = GifBrokenBytes -> <<"in/", "k.gif">>
      [] OTHER -> <<"in/", "j.png">>

\* read_all_bytes
read_all_bytes(p) ==
    IF \E b \in Buffers : PathOf(b) = p
    THEN Ok(CHOOSE b \in Buffers : PathOf(b) = p)
    ELSE Err(<<"open ", "in/missing.png", ": ", "os error">>)

\* read_all_bytes then detect_format_and_kind: Err when the file cannot be opened
\* or its bytes match no known signature
ReadAndDetect(p) ==
    IF ~read_all_bytes(p).ok THEN read_all_bytes(p)
    ELSE detect_format_and_kind(read_all_bytes(p).val)

\* the path of a file tempfile_in creates: prefix yana_ and a unique part
ArtPath(n) == <<"tmp/", "yana_" \o ToString(n)>>

\* a temporary file named after the input it is made from
FreshArtByInput(i) == <<"tmp/", "yana_" \o cpaths[i][2]>>

\* tempfile_in draws a random name and creates the file only if no file has it:
\* the file of item i is named after i
FreshArt(i) == ArtPath(i)

\* cleaned: clean_app_temp_dir removed the item's file; k: what
\* detect_format_and_kind returned; cause: the step at which process_one failed
NewWork ==
    [st |-> "start", art |-> <<>>, out |-> NoArtifact, cleaned |-> FALSE,
     k |-> NoKind, cause |-> "none"]

\* what process_one writes for item i under the settings of the call
ItemTranscode(i) ==
    Transcode(read_all_bytes(cpaths[i]).val, ReadAndDetect(cpaths[i]).val,
              clamp_quality(settings.quality), settings.mode,
              settings.force_animated_webp, settings.png_mode,
              settings.png_optimization)

\* a closure that has no fallback for a failed item
ItemOutputNoFallback(i, p, ok, pb) == <<i, pb>>

ItemOutput(i, p, ok, pb) == IF ok THEN <<i, pb>> ELSE <<i, p>>

\* the steps of process_one that can fail before a temporary file exists, for
\* the input at path p: it cannot be read, or not classified, or (whatever the
\* input) ensure_app_temp_dir or tempfile_in fails
EarlyCauses(p) ==
    IF ~read_all_bytes(p).ok THEN {"read"}
    ELSE IF ~ReadAndDetect(p).ok THEN {"classify"}
    ELSE {"tempdir", "tempfile"}

\* a worker whose temp-directory failure ends the whole call with an error
CFailEarlyAborting(i) ==
    /\ i \in DOMAIN cwork /\ cwork[i].st = "start"
    /\ cwork' = [cwork EXCEPT ![i].st = "err", ![i].cause = "tempdir"]
    /\ cv' = Append(cv, <<i, cpaths[i]>>)
    /\ cout' = Err(<<"create app temp dir ">>)
    /\ UNCHANGED <<tvars, env, pvars, cpaths, cfiles, cdata>>

\* process_one failed before a temporary file existed
CFailEarly(i) ==
    /\ i \in DOMAIN cwork /\ cwork[i].st = "start"
    /\ \E c \in EarlyCauses(cpaths[i]) :
         cwork' = [cwork EXCEPT ![i].st = "err", ![i].cause = c]
    /\ cv' = Append(cv, ItemOutput(i, cpaths[i], FALSE, <<>>))
    /\ UNCHANGED <<tvars, env, pvars, cpaths, cout, cfiles, cdata>>

\* process_one has read and classified the input and created its temporary file
CMake(i) ==
    /\ i \in DOMAIN cwork /\ cwork[i].st = "start"
    /\ ReadAndDetect(cpaths[i]).ok
    /\ cwork' = [cwork EXCEPT ![i].st = "made", ![i].art = FreshArt(i),
                              ![i].k = ReadAndDetect(cpaths[i]).val]
    /\ cfiles' = cfiles \cup {FreshArt(i)}
    /\ UNCHANGED <<tvars, env, pvars, cpaths, cv, cout, cdata>>

\* a failure after which the temporary file stays
CFailLateLeaving(i) ==
    /\ i \in DOMAIN cwork /\ cwork[i].st = "made"
    /\ cwork' = [cwork EXCEPT ![i].st = "err", ![i].cause = "late"]
    /\ cv' = Append(cv, ItemOutput(i, cpaths[i], FALSE, <<>>))
    /\ UNCHANGED <<tvars, env, pvars, cpaths, cout, cfiles, cdata>>

\* the step at which process_one fails once its temporary file exists: decode
\* or encode for an input they reject ("transcode"), else write or keep ("late")
LateCause(i) == IF ItemTranscode(i).ok THEN "late" ELSE "transcode"

\* decode or encode failed, or (whatever the input) write or keep failed: the
\* NamedTempFile is dropped, which deletes it
CFailLate(i) ==
    /\ i \in DOMAIN cwork /\ cwork[i].st = "made"
    /\ cwork' = [cwork EXCEPT ![i].st = "err", ![i].cause = LateCause(i)]
    /\ cfiles' = cfiles \ {cwork[i].art}
    /\ cv' = Append(cv, ItemOutput(i, cpaths[i], FALSE, <<>>))
    /\ UNCHANGED <<tvars, env, pvars, cpaths, cout, cdata>>

\* a keep() that returns a name other than that of the file it persisted
CKeepRenamed(i) ==
    /\ i \in DOMAIN cwork /\ cwork[i].st = "made"
    /\ ItemTranscode(i).ok
    /\ cwork' = [cwork EXCEPT ![i].st = "ok", ![i].out = ItemTranscode(i).val]
    /\ cv' = Append(cv, ItemOutput(i, cpaths[i], TRUE, <<"tmp/", "yana_kept">>))
    /\ UNCHANGED <<tvars, env, pvars, cpaths, cout, cfiles, cdata>>

\* the output is written and keep() persisted the file
CKeep(i) ==
    /\ i \in DOMAIN cwork /\ cwork[i].st = "made"
    /\ ItemTranscode(i).ok
    /\ cwork' = [cwork EXCEPT ![i].st = "ok", ![i].out = ItemTranscode(i).val]
    /\ cv' = Append(cv, ItemOutput(i, cpaths[i], TRUE, cwork[i].art))
    /\ UNCHANGED <<tvars, env, pvars, cpaths, cout, cfiles, cdata>>

RECURSIVE InsertByKey(_, _)
InsertByKey(sorted, e) ==
    IF sorted = <<>> THEN <<e>>
    ELSE IF e[1] < Head(sorted)[1] THEN <<e>> \o sorted
    ELSE <<Head(sorted)>> \o InsertByKey(Tail(sorted), e)

RECURSIVE SortFrom(_, _)
SortFrom(sorted, rest) ==
    IF rest = <<>> THEN sorted
    ELSE SortFrom(InsertByKey(sorted, Head(rest)), Tail(rest))

\* a collection that keeps the order in which the workers finished
sort_by_key_skipped(v) == v

\* v.sort_by_key(|(i, _)| *i): stable, ascending in the index
sort_by_key(v) == SortFrom(<<>>, v)

\* every worker is done: sort, drop the indices, return Ok(out)
CReturn ==
    /\ ~cout.set
    /\ Len(cv) = Len(cpaths)
    /\ cout' = Ok([k \in 1..Len(cv) |-> sort_by_key(cv)[k][2]])
    /\ UNCHANGED <<tvars, env, pvars, cpaths, cwork, cv, cfiles, cdata>>

DataArt == <<"tmp/", "yana_clipboard_1">>

\* what process_data writes for the buffer under the settings of the call
DataTranscode ==
    TranscodeData(cdata.buf, detect_format_and_kind(cdata.buf).val,
                  clamp_quality(settings.quality), settings.mode,
                  settings.force_animated_webp, settings.png_mode,
                  settings.png_optimization)

\* the steps at which process_data can fail for the buffer: classification, or
\* (whatever the buffer) the making of the temp file, then decode or encode for
\* a buffer they reject, else write or keep
DataCauses ==
    IF ~detect_format_and_kind(cdata.buf).ok THEN {"classify"}
    ELSE {"tempfile"} \cup (IF DataTranscode.ok THEN {"late"} ELSE {"transcode"})

\* compress_image_data returns Err: the bytes are not classified, decoded or
\* encoded or, whatever the bytes, the temp file is not made, written or kept;
\* no file is left
CDataFail ==
    /\ cdata.st = "idle"
    /\ \E c \in DataCauses :
         cdata' = [cdata EXCEPT !.st = "done", !.cause = c,
                                !.res = Err(<<"compress_image_data: ", "error">>)]
    /\ UNCHANGED <<tvars, env, pvars, cpaths, cwork, cv, cout, cfiles>>

\* compress_image_data returns Ok(path of the kept file)
CDataOk ==
    /\ cdata.st = "idle"
    /\ detect_format_and_kind(cdata.buf).ok
    /\ DataTranscode.ok
    /\ cdata' = [cdata EXCEPT !.st = "done", !.res = Ok(DataArt),
                               !.out = DataTranscode.val,
                               !.k = detect_format_and_kind(cdata.buf).val]
    /\ cfiles' = cfiles \cup {DataArt}
    /\ UNCHANGED <<tvars, env, pvars, cpaths, cwork, cv, cout>>

InitCompress ==
    /\ Idle
    /\ responses = BatchResponses
    /\ maxBatch = MaxItems
    /\ callers = {1}
    /\ kinds = {"remote", "local"}
    /\ settings = BatchSettings
    /\ cdata = NoData
    /\ cpaths \in SeqsUpTo(CPaths, MaxPaths)
    /\ cwork = [i \in 1..Len(cpaths) |-> NewWork]

PathIdx == 1..(MaxPaths + 1)

NextCompress ==
    \/ \E i \in PathIdx : CFailEarly(i)
    \/ \E i \in PathIdx : CMake(i)
    \/ \E i \in PathIdx : CFailLate(i)
    \/ \E i \in PathIdx : CKeep(i)
    \/ CReturn
    \/ CDataFail
    \/ CDataOk
    \/ clean_app_temp_dir

SpecCompress == InitCompress /\ [][NextCompress]_vars

\* one file and one buffer of the same bytes, or a file that is not there,
\* under every setting
InitTranscode ==
    /\ Idle
    /\ responses = BatchResponses
    /\ maxBatch = 1
    /\ callers = {1}
    /\ kinds = {"remote"}
    /\ settings \in AllSettings
    /\ \E b \in Buffers :
         /\ cdata = [NoData EXCEPT !.buf = b]
         /\ cpaths \in {<<PathOf(b)>>, <<PathMissing>>}
    /\ cwork = [i \in 1..Len(cpaths) |-> NewWork]

SpecTranscode == InitTranscode /\ [][NextCompress]_vars

----------------------------------------------------------------------------
(* Specifications of the quantiser and of the settings commands *)

\* no batch, no compress call
NoCalls ==
    /\ IdleBatches
    /\ responses = BatchResponses
    /\ maxBatch = 1
    /\ callers = {1}
    /\ kinds = {"remote"}
    /\ settings = BatchSettings
    /\ cdata = NoData
    /\ cpaths = <<>>
    /\ cwork = <<>>

\* every channel value under every row of the step table
InitQuantize ==
    /\ NoCalls
    /\ NoSettings
    /\ qv \in [quality : PixelQualities, value : ChannelValues,
                out : {0}, done : {FALSE}]
    /\ rv = NoRetry

SpecQuantize == InitQuantize /\ [][encode_png_pixel]_vars

\* every error text at every attempt number, under two maxima
InitRetry ==
    /\ NoCalls
    /\ NoSettings
    /\ qv = NoPixel
    /\ rv \in [error : ErrorTexts, attempt : 1..(MAX_RETRIES + 1),
                max : {1, MAX_RETRIES}, out : {FALSE}, done : {FALSE}]

SpecRetry == InitRetry /\ [][should_retry_call]_vars

InitSettings ==
    /\ NoCalls
    /\ NoSettings
    /\ qv = NoPixel
    /\ rv = NoRetry

NextSettings ==
    \/ \E p \in Payloads : save_settings(p)
    \/ load_settings

SpecSettings == InitSettings /\ [][NextSettings]_vars

----------------------------------------------------------------------------
(* Properties: compress_images *)

\* C1: when compress_images returns, it returns Ok with exactly one entry per
\* input path, and entry i is the artifact of input i if item i succeeded and the
\* path of input i otherwise, whatever the order in which the workers finished.
C1_OutputMatchesInput ==
    cout.set =>
        /\ cout.ok
        /\ Len(cout.val) = Len(cpaths)
        /\ \A i \in 1..Len(cpaths) :
             cout.val[i] = IF cwork[i].st = "ok" THEN cwork[i].art ELSE cpaths[i]

\* three inputs, the last worker finished first, one item failed, one succeeded
C1_Witness ==
    /\ cout.set
    /\ Len(cpaths) = 3
    /\ cv[1][1] = 3
    /\ cv[3][1] = 1
    /\ \E i, j \in 1..3 : cwork[i].st = "ok" /\ cwork[j].st = "err"

\* C2: the output at the position of a failed item is exactly that item's input
\* path, and each item's output depends on that item alone: beside a failed
\* item, a succeeded item still has its own artifact and not its input path.
C2_FallbackIsInputPath ==
    cout.set =>
        \A i \in 1..Len(cpaths) :
            cwork[i].st = "err" =>
                /\ cout.val[i] = cpaths[i]
                /\ \A j \in 1..Len(cpaths) :
                     cwork[j].st = "ok" =>
                        /\ cout.val[j] = cwork[j].art
                        /\ cout.val[j] # cpaths[j]

\* a readable input failed after its temporary file was made, an unreadable one
\* failed at once, and two others succeeded
C2_Witness ==
    /\ cout.set
    /\ \E i, j \in 1..Len(cpaths) :
         /\ cpaths[i] = PathGood /\ cwork[i].st = "err" /\ cwork[i].art # <<>>
         /\ cpaths[j] = PathMissing /\ cwork[j].st = "err"
         /\ cout.val[i] = PathGood /\ cout.val[j] = PathMissing
    /\ \E j \in 1..Len(cpaths) : cwork[j].st = "ok"

----------------------------------------------------------------------------
(* Properties: the gate *)

\* a caller inside generate_thumbnails_impl or generate_thumbnails_from_local_impl,
\* or between its return and the store that releases the gate
InBody(t) == pc[t] \in {"impl", "run", "joined", "dirfail"}

\* C3: at most one thumbnail batch, of either command, is inside the guarded
\* body at a time, and the gate is held while it is there.
C3_SingleFlight ==
    /\ Cardinality({t \in callers : InBody(t)}) <= 1
    /\ (\E t \in callers : InBody(t)) => gate = TRUE

\* a local batch runs while a second caller has been turned away
C3_Witness ==
    \E t, u \in callers :
        /\ t # u
        /\ pc[t] = "run" /\ kind[t] = "local" /\ Len(items[t]) > 0
        /\ pc[u] = "returned"

\* C4: the gate is never left held after the batch that acquired it has ended:
\* whenever the gate is held, some caller is still inside the guarded body.
C4_HeldOnlyByARunningBatch ==
    gate = TRUE => \E t \in callers : InBody(t)

\* C5: a call that arrives while the gate is held gets the busy error in that
\* step, and the step touches no cache entry, temp file, task or the gate; the
\* return of a batch, Ok or Err, frees the gate, and a call that arrives while
\* the gate is free acquires it and enters the body.
C5_BusyOrRun ==
    [][\A t \in callers :
          /\ (pc[t] = "idle" /\ pc'[t] # "idle" /\ gate = TRUE) =>
                /\ pc'[t] = "returned"
                /\ result'[t] = Err(BusyMsg)
                /\ UNCHANGED <<gate, cache, tmp, tasks, items>>
          /\ (pc[t] = "idle" /\ pc'[t] # "idle" /\ gate = FALSE) =>
                /\ pc'[t] = "impl"
                /\ gate' = TRUE
          /\ (pc[t] \in {"joined", "dirfail"} /\ pc'[t] = "idle") =>
                gate' = FALSE]_vars

\* a caller has acquired the gate after an earlier batch wrote its thumbnail and
\* returned, and the other caller has been turned away meanwhile
C5_Witness ==
    \E t, u \in callers :
        /\ t # u
        /\ pc[t] = "impl"
        /\ \E s \in Stems : cache[s] = "complete"
        /\ pc[u] = "returned" /\ result[u] = Err(BusyMsg)

----------------------------------------------------------------------------
(* Properties: the cache *)

\* C6: no reader gets a hit on an entry whose write is in progress or was
\* abandoned by a failed encode: get_thumbnail_path answers a path, and a batch
\* item takes the cache-hit branch, only for a completely written entry.
C6_HitsOnlyOnCompleteEntries ==
    /\ (seen.val # <<>> => seen.entry = "complete")
    /\ \A t \in callers : \A i \in DOMAIN tasks[t] :
         tasks[t][i].hit \in {"none", "complete"}

\* C7: a request for a url that has succeeded since the cache was last cleared
\* returns the cache path of the url from the cache-hit branch: no request was
\* sent and nothing was opened or encoded.
C7_HitAfterSuccess ==
    \A t \in callers : \A i \in DOMAIN tasks[t] :
        tasks[t][i].afterOk =>
            /\ tasks[t][i].st = "ok"
            /\ tasks[t][i].val = generate_cache_path(CacheDir, items[t][i].url)
            /\ tasks[t][i].hit # "none"
            /\ tasks[t][i].attempt = 0
            /\ tasks[t][i].causes = <<>>

\* the second item of a batch asks for a url that an earlier request completed
C7_Witness ==
    \E t \in callers :
        /\ pc[t] = "joined"
        /\ Len(tasks[t]) = 2
        /\ tasks[t][2].afterOk
        /\ tasks[t][2].hit = "complete"
        /\ result[t].ok

----------------------------------------------------------------------------
(* Properties: the value of a batch *)

AllFailed(t) ==
    /\ Len(tasks[t]) >= 1
    /\ \A j \in DOMAIN tasks[t] : tasks[t][j].st = "err"

OkIdx(t) == {j \in DOMAIN tasks[t] : tasks[t][j].st = "ok"}

\* the k-th item of the batch that succeeded
KthOk(t, k) == CHOOSE j \in OkIdx(t) : Cardinality({h \in OkIdx(t) : h < j}) = k - 1

\* C8 as stated: generate_thumbnails_impl and generate_thumbnails_from_local_impl
\* return Err exactly when the batch has an item and every item failed, and
\* otherwise Ok with one path per successful item.
C8_ErrIffAllItemsFailed ==
    \A t \in callers :
        pc[t] \in {"joined", "dirfail"} =>
            /\ ~result[t].ok <=> AllFailed(t)
            /\ result[t].ok => Len(result[t].val) = Cardinality(OkIdx(t))

\* C8: a batch that has its cache and temp directories returns Err exactly when
\* it has an item and every item failed, and otherwise (an empty list included)
\* Ok with exactly one path per successful item, each successful item's path
\* among them; a batch that cannot create a directory returns Err.
C8_ErrIffAllFailedOrNoDirectory ==
    \A t \in callers :
        /\ pc[t] = "joined" =>
             /\ ~result[t].ok <=> AllFailed(t)
             /\ result[t].ok =>
                  /\ Len(result[t].val) = Cardinality(OkIdx(t))
                  /\ \A j \in OkIdx(t) :
                       \E k \in 1..Len(result[t].val) : result[t].val[k] = tasks[t][j].val
        /\ pc[t] = "dirfail" => ~result[t].ok

\* a batch of two returned Ok with the one path of the item that succeeded
C8_Witness ==
    \E t \in callers :
        /\ pc[t] = "joined"
        /\ Len(tasks[t]) = 2
        /\ tasks[t][1].st = "err" /\ tasks[t][2].st = "ok"
        /\ result[t].ok /\ Len(result[t].val) = 1

----------------------------------------------------------------------------
(* Properties: the downloader *)

\* HTTP 401, 403 and 404, an empty body, a Content-Length above the maximum
PermanentCauses == {"401", "403", "404", "empty", "content-length"}

\* C10: an attempt that fails with a permanent-class error is the last attempt
\* of its download: download_image returns the error of that attempt, nothing is
\* slept after it and no further request is sent; as the first attempt, it is
\* the only one and nothing is slept at all.
C10_PermanentNotRetried ==
    \A t \in callers : \A i \in DOMAIN tasks[t] :
        \A k \in 1..Len(tasks[t][i].causes) :
            tasks[t][i].causes[k] \in PermanentCauses =>
                /\ k = Len(tasks[t][i].causes)
                /\ tasks[t][i].st = "err"
                /\ tasks[t][i].attempt = k
                /\ Len(tasks[t][i].sleeps) = k - 1
                /\ \E p \in permanent_errors : Contains(tasks[t][i].val, p)

\* the first attempt was answered 404 and the download has failed
C10_Witness ==
    \E t \in callers : \E i \in DOMAIN tasks[t] :
        /\ tasks[t][i].st = "err"
        /\ tasks[t][i].causes = <<"404">>
        /\ tasks[t][i].attempt = 1
        /\ tasks[t][i].sleeps = <<>>

\* network, timeout and connection failures, a failed read of the body, a
\* failed write of the file, a server error
TransientCauses == {"send", "read", "write", "500"}

\* the download of the item has failed: its last attempt was answered with an error
DownloadFailed(tk) == tk.st = "err" /\ tk.attempt >= 1 /\ Len(tk.causes) = tk.attempt

TaxonomyPermanentCauses == PermanentCauses \cup {"exceeds"}

\* C12: an attempt that fails with a cause of the permanent taxonomy, an
\* oversize body found after reading included, is the last attempt of its
\* download.
C12_TaxonomyPermanentNotRetried ==
    \A t \in callers : \A i \in DOMAIN tasks[t] :
        \A k \in 1..Len(tasks[t][i].causes) :
            tasks[t][i].causes[k] \in TaxonomyPermanentCauses =>
                /\ k = Len(tasks[t][i].causes)
                /\ tasks[t][i].st = "err"

\* C13: an attempt is Ok only for a body that is not empty, not longer than
\* MAX_SIZE, at least 4 bytes long and has a recognised signature; an attempt
\* that one of these validations rejects leaves no file at dest_path; and a
\* download that returned Ok has read such a body and left its file.
C13_OnlyValidatedBodiesAreWritten ==
    /\ \A r \in responses : \A u \in Urls :
         LET a == download_image_attempt(u, r, "thumb_uuid", MAX_SIZE)
         IN /\ a.ok => (r.len > 0 /\ r.len <= MAX_SIZE /\ r.len >= 4 /\ r.magic)
            /\ a.ok => WritesDest(a)
            /\ a.cause \in {"content-length", "empty", "exceeds", "magic"}
                  => ~WritesDest(a)
            /\ (r.len = 0 \/ r.len > MAX_SIZE \/ r.len < 4 \/ ~r.magic) => ~WritesDest(a)
    /\ \A t \in callers : \A i \in DOMAIN tasks[t] :
         (kind[t] = "remote" /\ tasks[t][i].st = "open") =>
            /\ tasks[t][i].read >= 4
            /\ tasks[t][i].read <= MAX_SIZE
            /\ TmpId(t, i) \in tmp

\* a download returned Ok after an attempt that a validation had rejected
C13_Witness ==
    \E t \in callers : \E i \in DOMAIN tasks[t] :
        /\ kind[t] = "remote" /\ tasks[t][i].st = "open"
        /\ tasks[t][i].causes = <<"magic">>
        /\ tasks[t][i].read = 10
        /\ TmpId(t, i) \in tmp

\* C14: no attempt takes in more than MAX_SIZE bytes of body.
C14_ReadsWithinBudget ==
    \A t \in callers : \A i \in DOMAIN tasks[t] : tasks[t][i].read <= MAX_SIZE

----------------------------------------------------------------------------
(* Properties: transcoding *)

\* the bytes item i was read from
ItemBytes(i) == read_all_bytes(cpaths[i]).val

ItemDone(i) == cwork[i].st = "ok"

DataDone == cdata.st = "done" /\ cdata.res.ok

\* what the table has for an animated GIF: frame by frame as a GIF with infinite
\* repeat under original_format, a static WebP of the first frame under webp
ByModeAlone(out, b) ==
    IF settings.mode = "original_format"
    THEN out.fmt = "Gif" /\ out.frames = b.frames /\ out.repeat = "infinite"
    ELSE out.fmt = "WebP" /\ out.frames = 1 /\ out.enc = "webp"

\* C15: for an animated GIF the outcome is that of the mode's row of the table,
\* whatever the other settings are, in compress_images and in compress_image_data.
C15_AnimatedGifByModeAlone ==
    /\ \A i \in DOMAIN cwork :
         (ItemDone(i) /\ ItemBytes(i) = GifAnimBytes) => ByModeAlone(cwork[i].out, GifAnimBytes)
    /\ (DataDone /\ cdata.buf = GifAnimBytes) => ByModeAlone(cdata.out, GifAnimBytes)

ClassifiedAnimatedWebp(b) ==
    /\ detect_format_and_kind(b).ok
    /\ detect_format_and_kind(b).val = [animated |-> TRUE, fmt |-> "WebP"]

\* the artifact is the input, byte for byte
IsInput(out, b) ==
    /\ out.same /\ out.from = b
    /\ out.fmt = b.magic /\ out.frames = b.frames
    /\ out.enc = "none" /\ out.q = 0

\* C16: for an input classified as animated WebP the artifact is the input byte
\* for byte, under both modes, both values of force_animated_webp and every
\* quality.
C16_AnimatedWebpPassthrough ==
    /\ \A i \in DOMAIN cwork :
         (ItemDone(i) /\ ClassifiedAnimatedWebp(ItemBytes(i)))
            => IsInput(cwork[i].out, ItemBytes(i))
    /\ (DataDone /\ ClassifiedAnimatedWebp(cdata.buf)) => IsInput(cdata.out, cdata.buf)

\* an animated WebP went through under mode webp with force_animated_webp set
C16_Witness ==
    /\ settings.mode = "webp" /\ settings.force_animated_webp /\ settings.quality = 0
    /\ Len(cpaths) = 1 /\ ItemDone(1) /\ ItemBytes(1) = WebpAnimBytes
    /\ cwork[1].out.same

\* the files compress_images made that are in the app temp directory
ItemFiles == cfiles \ {DataArt}

Uncleaned == \A i \in DOMAIN cwork : ~cwork[i].cleaned

\* C17 as stated: after the call, and with no clean_app_temp_dir in between,
\* there is one artifact per item, succeeded or failed.
C17_OneArtifactPerItem ==
    (cout.set /\ Uncleaned) => Cardinality(ItemFiles) = Len(cpaths)

\* C17: after the call, and with no clean_app_temp_dir in between, there is one
\* artifact per item that succeeded and none for an item that failed; the
\* artifact of a succeeded item stays until clean_app_temp_dir removes it.
C17_OneArtifactPerSucceededItem ==
    /\ \A i \in DOMAIN cwork : (ItemDone(i) /\ ~cwork[i].cleaned) => cwork[i].art \in cfiles
    /\ (cout.set /\ Uncleaned) =>
          /\ ItemFiles = {cwork[i].art : i \in {j \in DOMAIN cwork : ItemDone(j)}}
          /\ Cardinality(ItemFiles) = Cardinality({j \in DOMAIN cwork : ItemDone(j)})

\* of three items one succeeded, one failed before and one after its temporary
\* file was made; one file is there
C17_Witness ==
    /\ cout.set /\ Uncleaned /\ Len(cpaths) = 3
    /\ \E i, j, k \in 1..3 :
         /\ ItemDone(i)
         /\ cwork[j].st = "err" /\ cwork[j].art = <<>>
         /\ cwork[k].st = "err" /\ cwork[k].art # <<>>
    /\ Cardinality(ItemFiles) = 1

Min100(q) == IF q > 100 THEN 100 ELSE q

EncoderQualityOk(out) == out.enc # "none" => (out.q \in 0..100 /\ out.q = Min100(settings.quality))

\* C18: every encoder is given min(quality, 100): a value in 0..100, 100 for a
\* requested 255 and 0 for a requested 0; a call with quality 255 writes what
\* the call with quality 100 writes.
C18_QualityClamped ==
    /\ \A i \in DOMAIN cwork : ItemDone(i) => EncoderQualityOk(cwork[i].out)
    /\ DataDone => EncoderQualityOk(cdata.out)
    /\ \A b \in Buffers :
         detect_format_and_kind(b).ok =>
            LET k == detect_format_and_kind(b).val
                T(q) == Transcode(b, k, clamp_quality(q), settings.mode,
                                  settings.force_animated_webp, settings.png_mode,
                                  settings.png_optimization)
                D(q) == TranscodeData(b, k, clamp_quality(q), settings.mode,
                                      settings.force_animated_webp, settings.png_mode,
                                      settings.png_optimization)
            IN T(255) = T(100) /\ D(255) = D(100)

\* quality 255 was requested; the JPEG encoder and the buffer's encoder got 100
C18_Witness ==
    /\ settings.quality = 255 /\ settings.mode = "original_format"
    /\ Len(cpaths) = 1 /\ ItemDone(1) /\ ItemBytes(1) = JpegBytes
    /\ cwork[1].out.enc = "jpeg" /\ cwork[1].out.q = 100
    /\ DataDone /\ cdata.out.q = 100

\* C19: a valid single-frame PNG, JPEG or WebP processed under original_format
\* gives an artifact in the container detected from the input.
C19_OriginalFormatKept ==
    \A i \in DOMAIN cwork :
        (/\ ItemDone(i)
         /\ settings.mode = "original_format"
         /\ ItemBytes(i) \in {PngBytes, JpegBytes, WebpBytes, WebpStillAnimBytes})
        => /\ cwork[i].out.fmt = ItemBytes(i).magic
           /\ cwork[i].out.fmt = ReadAndDetect(cpaths[i]).val.fmt

\* a JPEG came out as a JPEG under lossy PNG settings
C19_Witness ==
    /\ settings.mode = "original_format" /\ settings.png_mode = "lossy"
    /\ Len(cpaths) = 1 /\ ItemDone(1) /\ ItemBytes(1) = JpegBytes
    /\ cwork[1].out.fmt = "Jpeg"

\* C20: a static image processed under mode webp gives a WebP artifact, whatever
\* its source format and the PNG settings.
C20_WebpModeGivesWebp ==
    \A i \in DOMAIN cwork :
        (/\ ItemDone(i)
         /\ settings.mode = "webp"
         /\ ItemBytes(i).frames = 1)
        => cwork[i].out.fmt = "WebP"

\* a BMP came out as a WebP under lossy PNG settings
C20_Witness ==
    /\ settings.mode = "webp" /\ settings.png_mode = "lossy"
    /\ settings.png_optimization = "best"
    /\ Len(cpaths) = 1 /\ ItemDone(1) /\ ItemBytes(1) = BmpBytes
    /\ cwork[1].out.fmt = "WebP" /\ cwork[1].out.enc = "webp"

----------------------------------------------------------------------------
(* Properties: the cache path of a url *)

\* the path whose file name is the 16 hex characters of the url's hash and .webp
PathOfUrl(u) == <<CacheDir, compute_url_hash(u), ".webp">>

\* C21: the cache path of a url depends on the cache directory and the url
\* alone: every item that succeeds in a batch of either command returns
\* <cache dir>/<16 hex of the url's hash>.webp, get_thumbnail_path reports the
\* same path when it finds the entry, and so the path a batch produced for a
\* url is the path get_thumbnail_path reports for it
C21_CachePathIsAFunctionOfTheUrl ==
    /\ \A t \in callers : \A i \in DOMAIN tasks[t] :
         tasks[t][i].st = "ok" =>
            /\ tasks[t][i].val = PathOfUrl(items[t][i].url)
            /\ (seen.val # <<>> /\ seen.url = items[t][i].url) =>
                   seen.val = tasks[t][i].val
    /\ seen.val # <<>> => seen.val = PathOfUrl(seen.url)
    /\ \A t \in callers : \A i, j \in DOMAIN tasks[t] :
         (tasks[t][i].st = "ok" /\ tasks[t][j].st = "ok"
            /\ items[t][i].url = items[t][j].url) =>
               tasks[t][i].val = tasks[t][j].val

\* get_thumbnail_path has just reported the entry of a url for which an item of
\* a local batch returned its path
C21_Witness ==
    /\ seen.val # <<>>
    /\ \E t \in callers : \E i \in DOMAIN tasks[t] :
         /\ kind[t] = "local"
         /\ tasks[t][i].st = "ok"
         /\ tasks[t][i].hit = "none"
         /\ items[t][i].url = seen.url

----------------------------------------------------------------------------
(* Properties: classification *)

\* the items whose bytes process_one has classified
Classified ==
    { i \in DOMAIN cwork :
        cwork[i].st \in {"made", "ok"} \/ cwork[i].cause \in {"late", "transcode"} }

KindOf(b) ==
    [animated |-> \/ b.magic = "Gif" /\ b.frames >= 2
                  \/ b.magic = "WebP" /\ b.anim_bytes,
     fmt |-> b.magic]

\* C27: detect_format_and_kind answers Animated exactly for a GIF with a
\* second frame and for a WebP whose bytes hold ANIM; a GIF of one frame, a
\* WebP without ANIM and every other recognised container are Static of their
\* container; bytes without a known signature are an error (and so is a GIF
\* signature whose header the decoder cannot read, of which the claim is silent)
C27_AnimatedOnlyGifAndAnimWebp ==
    /\ \A b \in Buffers :
         /\ b.magic = "none" => ~detect_format_and_kind(b).ok
         /\ (b.magic # "none" /\ b # GifBrokenBytes) => detect_format_and_kind(b).ok
         /\ detect_format_and_kind(b).ok => detect_format_and_kind(b).val = KindOf(b)
    /\ \A i \in Classified :
         /\ ItemBytes(i).magic # "none"
         /\ cwork[i].k = KindOf(ItemBytes(i))
    /\ cdata.res.ok => cdata.buf.magic # "none" /\ cdata.k = KindOf(cdata.buf)
    /\ \A i \in DOMAIN cwork :
         (read_all_bytes(cpaths[i]).ok /\ ItemBytes(i).magic = "none"
            /\ cwork[i].st # "start") => cwork[i].cause = "classify"

\* a WebP of one frame that holds the bytes ANIM was classified Animated
C27_Witness ==
    \E i \in Classified :
        /\ ItemBytes(i) = WebpStillAnimBytes
        /\ cwork[i].k = [animated |-> TRUE, fmt |-> "WebP"]

----------------------------------------------------------------------------
(* Thumbnail commands and compress_images side by side *)

\* clients of the thumbnail command and one compress_images call on one file
InitResource ==
    /\ IdleBatches
    /\ NoSettings
    /\ qv = NoPixel
    /\ rv = NoRetry
    /\ responses = {GoodResponse}
    /\ maxBatch = 1
    /\ callers = Callers
    /\ kinds = {"remote"}
    /\ settings = BatchSettings
    /\ cdata = NoData
    /\ cpaths = <<PathGood>>
    /\ cwork = [i \in 1..Len(cpaths) |-> NewWork]

NextResource ==
    \/ \E t \in callers : Acquire(t)
    \/ \E t \in callers : RejectBusy(t)
    \/ \E t \in callers : DirFail(t)
    \/ \E t \in callers : Spawn(t)
    \/ \E t \in callers : CacheHit(t, 1)
    \/ \E t \in callers : MissRemote(t, 1)
    \/ \E t \in callers : Respond(t, 1)
    \/ \E t \in callers : OpenOk(t, 1)
    \/ \E t \in callers : EncodeOk(t, 1)
    \/ \E t \in callers : Finish(t, 1)
    \/ \E t \in callers : Join(t)
    \/ \E t \in callers : Release(t)
    \/ \E t \in callers : Return(t)
    \/ CFailEarly(1)
    \/ CMake(1)
    \/ CKeep(1)
    \/ CReturn

SpecResource == InitResource /\ [][NextResource]_vars

----------------------------------------------------------------------------
(* Properties: a resource every item needs is not available *)

\* C23 as stated: when the temp directory or the cache directory cannot be
\* created, or the gate is held, the call ends with an error for the whole
\* call and has no per-item results
C23_ResourceFailureAbortsTheCall ==
    /\ \A t \in callers :
         /\ pc[t] = "dirfail" => ~result[t].ok /\ tasks[t] = <<>>
         /\ pc[t] = "returned" => result[t] = Err(BusyMsg)
    /\ (cout.set /\ \E i \in DOMAIN cwork : cwork[i].cause = "tempdir") => ~cout.ok

\* C23, amended: a thumbnail command whose directories cannot be created ends
\* with an error for the whole call before any item runs, and the gate is
\* released before its caller has the error; a thumbnail command that finds
\* the gate held ends with the busy error and leaves the gate held.
\* compress_images has no such abort: its temp directory is made per item, an
\* item whose directory cannot be made falls back to its input path, and the
\* call returns Ok with one entry per input.
C23_ThumbnailsAbortCompressFallsBack ==
    [][/\ \A t \in callers :
            /\ (pc[t] = "impl" /\ pc'[t] = "dirfail") =>
                  ~result'[t].ok /\ tasks'[t] = <<>> /\ gate'
            /\ (pc[t] = "dirfail" /\ pc'[t] # "dirfail") => ~gate'
            /\ (pc[t] = "idle" /\ pc'[t] = "returned") =>
                  gate /\ gate' /\ result'[t] = Err(BusyMsg) /\ tasks' = tasks
       /\ (~cout.set /\ cout'.set) =>
            /\ cout'.ok
            /\ Len(cout'.val) = Len(cpaths)
            /\ \A i \in DOMAIN cwork :
                 cwork[i].cause = "tempdir" => cout'.val[i] = cpaths[i]
      ]_vars

\* the temp directory could not be made for the item of compress_images, which
\* has returned Ok; one thumbnail command is aborting on its directories and
\* another found the gate held
C23_Witness ==
    /\ cout.set /\ cout.ok
    /\ \E i \in DOMAIN cwork : cwork[i].cause = "tempdir" /\ cout.val[i] = cpaths[i]
    /\ \E t, u \in callers : pc[t] = "dirfail" /\ pc[u] = "returned"

----------------------------------------------------------------------------
(* Properties: the temporary download file *)

\* C24: once process_single_thumbnail has returned for a url that was not in
\* the cache, the temporary download file of the item is gone, whether the
\* item succeeded or failed in the download, in the decoding or in the saving
C24_NoDownloadFileAfterReturn ==
    \A t \in callers : \A i \in DOMAIN tasks[t] :
        (kind[t] = "remote" /\ Done(tasks[t][i]) /\ tasks[t][i].hit = "none") =>
            TmpId(t, i) \notin tmp

----------------------------------------------------------------------------
(* Properties: the life of a cache entry *)

\* the step of clear_thumbnail_cache: the directory is emptied, no item moves
ClearStep == cache' = [s \in Stems |-> "absent"] /\ tasks' = tasks

\* C25 as stated: a complete entry stays as it is in every step but a step of
\* clear_thumbnail_cache: nothing deletes it, nothing writes it again
C25_EntryWrittenOnce ==
    [][\A s \in Stems :
          cache[s] = "complete" => (cache'[s] = "complete" \/ ClearStep)]_vars

\* C25, amended: an entry that exists is removed only by clear_thumbnail_cache;
\* an item that finds it at its existence check returns its path and never
\* writes; the only writers of an existing entry are items that found it
\* missing at their own check, so an entry is written again when the same url
\* occurs twice in one batch (both items check before either writes).
\* get_thumbnail_path and clean_app_temp_dir never change the cache.
C25_EntryRemovedOnlyByClear ==
    [][/\ \A s \in Stems :
            (cache[s] # "absent" /\ cache'[s] # cache[s]) =>
               \/ ClearStep
               \/ /\ cache'[s] # "absent"
                  /\ \E t \in callers : \E i \in DOMAIN tasks[t] :
                       /\ Stem(t, i) = s
                       /\ tasks[t][i].hit = "none"
                       /\ tasks[t][i].st \in {"open", "encode"}
                       /\ tasks'[t][i].st \in {"encode", "meta"}
       /\ \A t \in callers : \A i \in DOMAIN tasks[t] :
            tasks[t][i].hit # "none" => tasks[t][i].st = "ok"
      ]_vars

\* two items of one batch asked for the same url and both missed; the first
\* has created the entry and returned, the second is writing it again
C25_Witness ==
    \E t \in callers : \E i, j \in DOMAIN tasks[t] :
        /\ i # j
        /\ items[t][i].url = items[t][j].url
        /\ tasks[t][i].st = "ok" /\ tasks[t][i].hit = "none"
        /\ tasks[t][j].st = "encode" /\ tasks[t][j].hit = "none"
        /\ cache[Stem(t, j)] = "partial"

----------------------------------------------------------------------------
(* Properties: the settings file *)

\* the keys the serialised form is said to carry
ClaimedKeys ==
    {"quality", "convertToWebp", "forceAnimatedWebp", "pngCompressionMode",
     "pngOptimization", "enableUploadCompression", "maxConcurrentUploads"}

\* C26: the serialised SettingsPayload carries the seven camelCase keys, and
\* deserialising it gives back the value that was serialised, field by field
C26_RoundTripWithSevenKeys ==
    \A j \in sfile :
        /\ ClaimedKeys \subseteq DOMAIN j
        /\ from_str(j).ok
        /\ \A f \in SettingsFields : from_str(j).val[f] = clamped(sarg)[f]
        /\ sback.set => (sback.ok /\ sback.val = clamped(sarg))

----------------------------------------------------------------------------
(* Properties: the quantiser *)

Abs(n) == IF n < 0 THEN 0 - n ELSE n

\* the steps of the table that quantise
QuantSteps == {48, 32, 16, 8, 4, 2}

\* C28 as stated: for every channel value and every step of the table above 1
\* the result is a multiple of the step and at most half a step from the value
C28_NearestMultiple ==
    (qv.done /\ png_step(qv.quality) > 1) =>
        /\ png_step(qv.quality) \in QuantSteps
        /\ qv.out % png_step(qv.quality) = 0
        /\ 2 * Abs(qv.out - qv.value) <= png_step(qv.quality)

\* C28, amended: the result is the multiple of the step nearest to the value
\* (halves round up), cut to 255 when that multiple is 256: it is at most half
\* a step from the value and within 0..255; it is a multiple of the step
\* unless it is the 255 that stands for 256, which happens exactly for the
\* values from 256 - step/2 on under the steps 32, 16, 8, 4 and 2
C28_NearestMultipleCutTo255 ==
    (qv.done /\ png_step(qv.quality) > 1) =>
        LET s == png_step(qv.quality)
            m == ((qv.value + s \div 2) \div s) * s
        IN /\ s \in QuantSteps
           /\ m % s = 0
           /\ 2 * Abs(m - qv.value) <= s
           /\ qv.out \in 0..255
           /\ qv.out = IF m > 255 THEN 255 ELSE m
           /\ 2 * Abs(qv.out - qv.value) <= s
           /\ (qv.out % s # 0) <=> (s # 48 /\ qv.value >= 256 - s \div 2)

\* the value 255 under the step 2: the nearest multiple is 256, the result 255
C28_Witness ==
    /\ qv.done
    /\ qv.value = 255
    /\ png_step(qv.quality) = 2
    /\ qv.out = 255

----------------------------------------------------------------------------
(* Properties: the declared Content-Type *)

\* the Content-Type values a response may declare
ContentTypes == {"image/png", "text/html", ""}

\* the item has had an answer from the network
Responded(t, i) ==
    /\ kind[t] = "remote"
    /\ tasks[t][i].hit = "none"
    /\ tasks[t][i].causes # <<>> \/ tasks[t][i].st \notin {"check", "dl"}

\* the latest attempt of the task returned Ok
LastAttemptOk(tk) == tk.st # "dl" /\ Len(tk.causes) = tk.attempt - 1

\* C29: the outcome of a download attempt (success, or which error) is the
\* same whatever Content-Type the response declares: it is the outcome the
\* same response has with any other Content-Type
C29_ContentTypeIsAdvisory ==
    /\ \A r \in responses : \A ct \in ContentTypes : \A u \in Urls :
         download_image_attempt(u, [r EXCEPT !.ctype = ct], "thumb_uuid", MAX_SIZE)
           = download_image_attempt(u, r, "thumb_uuid", MAX_SIZE)
    /\ \A t \in callers : \A i \in DOMAIN tasks[t] :
         Responded(t, i) =>
            \A ct \in ContentTypes :
               LET tk == tasks[t][i]
                   a == download_image_attempt(items[t][i].url,
                                               [tk.last EXCEPT !.ctype = ct],
                                               "thumb_uuid", MAX_SIZE)
               IN /\ a.ok <=> LastAttemptOk(tk)
                  /\ ~a.ok => tk.causes[Len(tk.causes)] = a.cause

\* a body served as text/html was downloaded and became a thumbnail
C29_Witness ==
    \E t \in callers : \E i \in DOMAIN tasks[t] :
        /\ Responded(t, i)
        /\ tasks[t][i].last.ctype = "text/html"
        /\ tasks[t][i].st = "ok"

----------------------------------------------------------------------------
(* Properties: the files compress_images returns *)

\* the paths handed to the call
InputPaths == { cpaths[i] : i \in DOMAIN cpaths }

----------------------------------------------------------------------------
(* Properties: two producers of one key *)

\* the item ran compress_to_thumbnail as far as save_with_format creating the
\* file of the entry, and has returned
WroteEntry(tk) ==
    /\ tk.hit = "none"
    /\ \/ tk.st = "ok"
       \/ tk.st = "err" /\ tk.val # <<>> /\ tk.val[1] = "Failed to save thumbnail"

\* C31: when two items of one batch ask for the same uncached url, both miss
\* and both write the same cache path, and the race is benign: once both have
\* returned (and the cache was not cleared since), the path an item returned
\* names an entry that is there and holds one complete thumbnail, and if both
\* succeeded they returned the same path
C31_DuplicateUrlRaceIsBenign ==
    \A t \in callers : \A i, j \in DOMAIN tasks[t] :
        (/\ i # j
         /\ kind[t] = "remote"
         /\ items[t][i].url = items[t][j].url
         /\ tasks[t][i].st = "ok" /\ tasks[t][i].hit = "none"
         /\ WroteEntry(tasks[t][j])
         /\ okSince[items[t][i].url]) =>
            /\ cache[Stem(t, i)] = "complete"
            /\ tasks[t][j].st = "ok" => tasks[t][j].val = tasks[t][i].val

----------------------------------------------------------------------------
(* Properties: the lookup outside the gate *)

\* the step is a get_thumbnail_path call: it alone leaves an answer in seen
LookupStep == seen'.url # <<>>

\* C32: get_thumbnail_path is outside the single-flight gate and reads only:
\* its answer is the cache path of the url or none, never the busy error,
\* also while a batch holds the gate, and the call changes neither the gate
\* nor any cache entry, temp file, batch or item
C32_LookupIsUngatedAndReadOnly ==
    [][LookupStep =>
          /\ seen'.val # BusyMsg
          /\ seen'.val \in {<<>>, generate_cache_path(CacheDir, seen'.url)}
          /\ seen'.val # <<>> <=> cache[compute_url_hash(seen'.url)] # "absent"
          /\ UNCHANGED <<gate, cache, tmp, pc, kind, items, tasks, result, okSince>>
      ]_vars

\* get_thumbnail_path has just answered with a path while a batch was running
\* with the gate held and another caller had been turned away as busy
C32_Witness ==
    /\ seen.val # <<>>
    /\ gate
    /\ \E t, u \in callers :
         /\ pc[t] = "run" /\ \E i \in DOMAIN tasks[t] : tasks[t][i].st = "dl"
         /\ pc[u] = "returned" /\ result[u] = Err(BusyMsg)

----------------------------------------------------------------------------
(* Properties: the order of a batch's result *)

\* the position in the result of the item at position i of the input, when the
\* item succeeded: one more than the items before it that succeeded
ResultPos(t, i) == 1 + Cardinality({h \in OkIdx(t) : h < i})

\* C33: the list a thumbnail batch of either command returns is the cache
\* paths of the items that succeeded, in the order of their positions in the
\* input, whichever item finished first: an item that succeeded is found at
\* the position that counts the succeeded items up to it, a failed item has no
\* position, and every entry is the path derived from the url of its item
C33_SucceededItemsInInputOrder ==
    \A t \in callers :
        (pc[t] = "joined" /\ result[t].ok) =>
            /\ Len(result[t].val) = Cardinality(OkIdx(t))
            /\ \A i \in OkIdx(t) :
                 /\ ResultPos(t, i) \in 1..Len(result[t].val)
                 /\ result[t].val[ResultPos(t, i)] = tasks[t][i].val
                 /\ result[t].val[ResultPos(t, i)] = PathOfUrl(items[t][i].url)
                 /\ (\E j \in 1..(i - 1) : tasks[t][j].st = "err") => ResultPos(t, i) < i
            /\ \A i, j \in OkIdx(t) : i < j => ResultPos(t, i) < ResultPos(t, j)

\* the second item was answered from the cache during the first poll, before
\* the download of the first item had its response; the first item's path
\* still comes first
C33_Witness ==
    \E t \in callers :
        /\ pc[t] = "joined" /\ result[t].ok
        /\ Len(tasks[t]) = 2
        /\ tasks[t][1].st = "ok" /\ tasks[t][1].hit = "none" /\ tasks[t][1].attempt = 1
        /\ tasks[t][2].st = "ok" /\ tasks[t][2].hit = "complete"
        /\ items[t][1].url # items[t][2].url
        /\ result[t].val = <<PathOfUrl(items[t][1].url), PathOfUrl(items[t][2].url)>>

----------------------------------------------------------------------------
(* Properties: rejected callers and the gate *)

\* the callers whose batch is past the compare_exchange and not yet released
Holders == { t \in callers : InBody(t) }

\* C34: a thumbnail command that is rejected as busy does not write
\* GENERATING_THUMBNAILS: the flag is held before and after the rejection, the
\* batch that holds it goes on undisturbed, no second batch enters while it is
\* there, and the flag goes from held to free only in the release step of the
\* batch that holds it, however many callers were rejected in between
C34_RejectionLeavesTheGate ==
    [][/\ \A u \in callers :
            (pc[u] = "idle" /\ pc'[u] = "returned") =>
               /\ gate /\ gate'
               /\ result'[u] = Err(BusyMsg)
               /\ \A t \in Holders :
                    /\ pc'[t] = pc[t]
                    /\ tasks'[t] = tasks[t]
                    /\ items'[t] = items[t]
       /\ (gate /\ ~gate') =>
            \E t \in Holders : pc[t] \in {"joined", "dirfail"} /\ pc'[t] = "idle"
       /\ \A u \in callers :
            (Holders # {} /\ pc[u] = "idle" /\ pc'[u] # "idle") => pc'[u] = "returned"
      ]_vars

\* the batch that holds the gate has joined with its thumbnails while the other
\* caller, rejected, has its busy error
C34_Witness ==
    \E t, u \in callers :
        /\ t # u
        /\ gate
        /\ pc[t] = "joined" /\ result[t].ok /\ Len(result[t].val) >= 1
        /\ pc[u] = "returned" /\ result[u] = Err(BusyMsg)

----------------------------------------------------------------------------
(* Properties: the retry loop *)

\* the error download_image_attempt gives for the latest answer of the item
LastAttemptMsg(t, i) ==
    download_image_attempt(items[t][i].url, tasks[t][i].last, "thumb_uuid", MAX_SIZE).msg

\* C35: download_image makes at most MAX_RETRIES = 3 attempts: every answer to
\* an attempt either ends the download or starts the next attempt, whose number
\* is one more and at most 3; a sleep is taken exactly when a next attempt
\* follows, so the attempts made are one more than the sleeps and the failure
\* of the last attempt is not slept on; and the error of a failed download is
\* the error of its final attempt, as download_image_attempt gave it.
C35_BoundedAttemptsLastError ==
    [][\A t \in callers : \A i \in DOMAIN tasks[t] :
         (/\ tasks[t][i].st = "dl"
          /\ i \in DOMAIN tasks'[t]
          /\ tasks'[t][i] # tasks[t][i]) =>
            LET tk == tasks[t][i]
                nk == tasks'[t][i]
            IN /\ tk.attempt \in 1..MAX_RETRIES
               /\ Len(tk.sleeps) = tk.attempt - 1
               /\ \/ /\ nk.st = "dl"
                     /\ nk.attempt = tk.attempt + 1
                     /\ nk.attempt <= MAX_RETRIES
                     /\ Len(nk.sleeps) = Len(tk.sleeps) + 1
                  \/ /\ nk.st = "open"
                     /\ nk.attempt = tk.attempt
                     /\ nk.sleeps = tk.sleeps
                  \/ /\ nk.st = "err"
                     /\ nk.attempt = tk.attempt
                     /\ nk.sleeps = tk.sleeps
                     /\ Len(nk.causes) = nk.attempt
                     /\ nk.val = download_image_attempt(items[t][i].url, nk.last,
                                                        "thumb_uuid", MAX_SIZE).msg
      ]_vars

\* three attempts were made and failed; the download has returned the server
\* error of the third after the two sleeps between them
C35_Witness ==
    \E t \in callers : \E i \in DOMAIN tasks[t] :
        /\ tasks[t][i].st = "err"
        /\ tasks[t][i].attempt = MAX_RETRIES
        /\ Len(tasks[t][i].causes) = MAX_RETRIES
        /\ tasks[t][i].causes[1] = "read"
        /\ tasks[t][i].causes[MAX_RETRIES] = "500"
        /\ tasks[t][i].sleeps = <<1000, 2000>>
        /\ tasks[t][i].val = LastAttemptMsg(t, i)
        /\ Contains(tasks[t][i].val, <<"HTTP error ", "500">>)

----------------------------------------------------------------------------
(* Properties: should_retry as a function *)

\* the error holds one of the seven permanent substrings, letter for letter
HoldsPermanent(e) == \E p \in permanent_errors : Contains(e, p)

\* C36: for every error text and attempt number, should_retry is true exactly
\* when the attempt number is below the maximum and the text holds none of the
\* seven permanent substrings, compared case-sensitively; whether the text
\* holds a retriable substring, in any case, makes no difference.
C36_RetryIffBelowMaxAndNotPermanent ==
    /\ Cardinality(permanent_errors) = 7
    /\ rv.done =>
         /\ rv.out = (rv.attempt < rv.max /\ ~HoldsPermanent(rv.error))
         /\ \A x \in retriable_errors :
              should_retry(rv.error \o x, rv.attempt, rv.max)
                 = should_retry(rv.error, rv.attempt, rv.max)

\* a text that holds a permanent substring in lower case only, and no retriable
\* one, was put to should_retry at the first of three attempts: retried
C36_Witness ==
    /\ rv.done
    /\ rv.error = <<"http error ", "404">>
    /\ rv.attempt = 1
    /\ rv.max = MAX_RETRIES
    /\ ~\E x \in retriable_errors : Contains(to_lowercase(rv.error), x)
    /\ rv.out

----------------------------------------------------------------------------
(* Downloads of several urls over a network that times out *)

TimeoutResponses ==
    { GoodResponse,
      [GoodResponse EXCEPT !.send = "timed out"] }

\* one client, batches of remote urls, requests that may time out
InitRetryUrls ==
    /\ Idle
    /\ responses = TimeoutResponses
    /\ maxBatch = MaxItems
    /\ callers = {1}
    /\ kinds = {"remote"}
    /\ settings = BatchSettings
    /\ cdata = NoData
    /\ cpaths = <<>>
    /\ cwork = <<>>

NextRetryUrls ==
    \/ Acquire(1)
    \/ Spawn(1)
    \/ \E i \in 1..MaxItems : CacheHit(1, i)
    \/ \E i \in 1..MaxItems : MissRemote(1, i)
    \/ \E i \in 1..MaxItems : Respond(1, i)
    \/ \E i \in 1..MaxItems : OpenOk(1, i)
    \/ \E i \in 1..MaxItems : EncodeOk(1, i)
    \/ \E i \in 1..MaxItems : Finish(1, i)
    \/ Join(1)
    \/ Release(1)

SpecRetryUrls == InitRetryUrls /\ [][NextRetryUrls]_vars

\* the k-th attempt of the download failed and another attempt followed
RetriedAt(tk, k) == k \in 1..Len(tk.causes) /\ k < tk.attempt

\* the k-th attempt of the download failed and download_image returned its error
AbandonedAt(tk, k) == tk.st = "err" /\ k = Len(tk.causes) /\ k = tk.attempt

\* C37: two downloads that fail with the same cause at the same attempt are
\* both retried or both abandoned, whatever their urls are.
C37_RetryIndependentOfUrl ==
    \A t \in callers : \A i, j \in DOMAIN tasks[t] :
        \A k \in 1..MAX_RETRIES :
            (/\ RetriedAt(tasks[t][i], k)
             /\ k \in 1..Len(tasks[t][j].causes)
             /\ tasks[t][j].causes[k] = tasks[t][i].causes[k])
            => ~AbandonedAt(tasks[t][j], k)

----------------------------------------------------------------------------
(* Properties: what compress_images leaves in the temp directory *)

\* the items of the call whose file f is
OwnersOf(f) == { i \in DOMAIN cwork : cwork[i].art = f }

\* C38: every file of compress_images that is in the app temp directory is the
\* file of exactly one item; once that item is done it is an item that
\* succeeded, and once the call has returned the file's path is the entry of
\* the result at that item's index. An item that failed, at whatever step, has
\* no file there, and the entry at its index is its input path.
C38_FilesBelongToSucceededItems ==
    /\ \A f \in ItemFiles :
         /\ Cardinality(OwnersOf(f)) = 1
         /\ \A i \in OwnersOf(f) :
              /\ cwork[i].st \in {"made", "ok"}
              /\ cout.set => (cwork[i].st = "ok" /\ cout.val[i] = f)
    /\ \A i \in DOMAIN cwork :
         cwork[i].st = "err" =>
            /\ cwork[i].art \notin cfiles
            /\ cout.set => (cout.val[i] = cpaths[i] /\ cout.val[i] \notin cfiles)

\* the call has returned: an item failed before its temporary file was made,
\* another after, and the one file left is the one returned for the third
C38_Witness ==
    /\ cout.set /\ cout.ok /\ Len(cpaths) = 3
    /\ \E i, j, k \in 1..3 :
         /\ cwork[i].st = "ok" /\ cout.val[i] = cwork[i].art
         /\ ItemFiles = {cwork[i].art}
         /\ cwork[j].st = "err" /\ cwork[j].cause = "late" /\ cout.val[j] = cpaths[j]
         /\ cwork[k].st = "err" /\ cwork[k].cause = "read" /\ cout.val[k] = cpaths[k]

----------------------------------------------------------------------------
(* Properties: returned paths and the commands outside the gate *)

\* C39: when a batch of generate_thumbnails returns Ok, every path of its list names a cache
\* entry that exists, whatever clear_thumbnail_cache and clean_app_temp_dir did
\* while the batch ran.
C39_ReturnedPathsExist ==
    \A t \in callers :
        (pc[t] = "joined" /\ kind[t] = "remote" /\ result[t].ok) =>
            \A i \in OkIdx(t) :
                /\ result[t].val[ResultPos(t, i)] = generate_cache_path(CacheDir, items[t][i].url)
                /\ cache[compute_url_hash(items[t][i].url)] # "absent"

----------------------------------------------------------------------------
(* Properties: the file path and the in-memory path *)

\* compress_images has finished its one item, a file that holds the bytes of
\* the buffer, and compress_image_data has finished the buffer
BothFinished ==
    /\ Len(cpaths) = 1
    /\ read_all_bytes(cpaths[1]).ok
    /\ ItemBytes(1) = cdata.buf
    /\ cwork[1].st \in {"ok", "err"}
    /\ cdata.st = "done"

\* neither call failed at making, writing or keeping its temporary file
NoFileFailure ==
    /\ cwork[1].cause \notin {"tempdir", "tempfile", "late"}
    /\ cdata.cause \notin {"tempfile", "late"}

====
